---- MODULE Spec2Model ----
(***************************************************************************)
(* Bridge-DB: DatabaseMigrator (src/db/migrator.py).                       *)
(*                                                                         *)
(* A job is one call of migrate_tables: it registers the caller's progress *)
(* callback and a cancel flag under task_id and submits                    *)
(* _migrate_tables_sync to the thread pool.  The worker's position is pc;  *)
(* a pc that names an operation (inspect, ddl, count, single_read, ...)    *)
(* means that operation is in flight, and the action of that name is the   *)
(* operation returning or raising.                                         *)
(*                                                                         *)
(* SchemaInspector (src/db/inspector.py): map_data_type and                *)
(* generate_create_table_sql are pure functions, modelled as operators and *)
(* applied to bounded inputs under SpecInspector.                          *)
(***************************************************************************)
EXTENDS Integers, Sequences, FiniteSets, TLC

Min(a, b) == IF a < b THEN a ELSE b
Max(a, b) == IF a > b THEN a ELSE b

\* ------------------------------------------------------------- bounds
\* calls of migrate_tables in SpecJobs, and the tables of all its jobs together
MaxJobs == 2
MaxTablesJobs == 1
\* the longest table list in Spec
MaxTables == 3

\* ------------------------------------------------- program constants
max_workers == 5
Threshold == 1000000
chunk_size == 100000

\* one call more than the pool has workers, in SpecPool
PoolJobs == max_workers + 1

\* ------------------------------------------------------------ inputs
Jobs == 1..Max(MaxJobs, PoolJobs)
TaskIds == {"a", "b"}
ConnIds == {"source", "target"}
ConnArgs == ConnIds \cup {"missing"}
\* <<what the row-count query returns, rows the source table really holds>>:
\* an exact small count, a stale PostgreSQL estimate of 0 for a non-empty
\* table, and a stale estimate above the threshold for a table of one and a
\* half chunks.
RowProfiles == {<<3, 3>>, <<0, 3>>, <<Threshold + 2 * chunk_size, chunk_size + (chunk_size \div 2)>>}

\* columns in the primary key of a source table: none, one, or a composite
\* key of two
PkCols == {0, 1, 2}

Terminal == {"completed", "cancelled", "error"}
\* positions at which an operation against a database is in flight
OpPcs == {"inspect", "ddl", "count", "get_pk", "single_read", "single_write",
          "chunk_read", "chunk_write"}
\* positions inside the body of the table loop
TablePcs == OpPcs \cup {"chunk_loop"}

VARIABLES
  env,                 \* what the callers do: the number of migrate_tables
                       \* calls, the tables of all calls together, the
                       \* row profiles of the source tables, the task ids
                       \* they start and cancel, whether they pass a
                       \* callback and whether a callback may raise, the
                       \* target connection ids they pass, the
                       \* connections made before the first call, how many
                       \* columns the primary keys of the source tables have
                       \* and whether the lookup of a primary key, the
                       \* TRUNCATE of a target table and the read or write
                       \* of a chunk may raise for a reason of the
                       \* databases, the source connection ids passed, and
                       \* the tables whose rows in the target are observed
  engines,             \* connector.engines: connection id -> [type, engine],
                       \* engine being the index of the handle in `handles`
  handles,             \* every engine handle connect has created: "open" or
                       \* "disposed"
  target_rows,         \* rows in the target database's table, for every
                       \* position of the table list that env.observed names
  progress_callbacks,  \* task_id -> sink (the job slot whose caller supplied it)
  cancel_flags,        \* task_id -> BOOLEAN
  njobs,               \* migrate_tables calls admitted so far
  jobs,                \* job slot -> the worker's locals
  hist,                \* job slot -> what the worker has emitted and done so far
  sinks,               \* sink -> what has been delivered to it
  result               \* the last return value of migrate_tables / cancel_migration

vars == <<env, target_rows, engines, handles, progress_callbacks, cancel_flags, njobs, jobs, hist, sinks, result>>

IdleJob ==
  [pc |-> "idle", task_id |-> "a", sink |-> 0, total_tables |-> 0, table |-> 1,
   tables_migrated |-> 0, failed_tables |-> <<>>, row_count |-> 0,
   true_rows |-> 0, rows_processed |-> 0, last_id |-> 0, offset |-> 0,
   pk_column |-> FALSE, df_len |-> 0, error |-> "none",
   target_db_type |-> "none", pk_cols |-> 0, source_db_type |-> "none",
   chunks |-> 0]

\* last: the latest snapshot passed to _update_progress; nterminal: terminal
\* snapshots emitted; post_terminal: snapshots emitted after a terminal one;
\* started: a database operation has been started; last_completed and
\* last_failed: the latest tables_completed and |tables_failed| a snapshot
\* carried; cancel_seen: a cancel was accepted while the worker ran;
\* cancel_table: the table in progress at that cancel (0: none);
\* sink_raised: the callback raised in the worker's latest step;
\* cancel_queued: a cancel was accepted while the job was queued
NoHist ==
  [last |-> [status |-> "none"], nterminal |-> 0, post_terminal |-> 0,
   started |-> FALSE, last_completed |-> 0, last_failed |-> 0,
   cancel_seen |-> FALSE, cancel_table |-> 0, sink_raised |-> FALSE,
   cancel_queued |-> FALSE]

NoSink == [nterminal |-> 0, last |-> "none"]

NoResult == [op |-> "none", id |-> "a", ret |-> "none"]

\* the connections made before the first call: a source and a target of
\* the given types
RegisteredAs(source_db_type, target_db_type) ==
  [source |-> [type |-> source_db_type, engine |-> 1],
   target |-> [type |-> target_db_type, engine |-> 2]]

\* a PostgreSQL source
RegisteredWith(target_db_type) == RegisteredAs("postgresql", target_db_type)

Registered == RegisteredWith("mysql")

InitWith(e) ==
  /\ env = e
  /\ target_rows = [t \in e.observed |-> 0]
  /\ engines = e.registry
  /\ handles = [h \in 1..Cardinality(DOMAIN e.registry) |-> "open"]
  /\ progress_callbacks = <<>>
  /\ cancel_flags = <<>>
  /\ njobs = 0
  /\ jobs = [j \in Jobs |-> IdleJob]
  /\ hist = [j \in Jobs |-> NoHist]
  /\ sinks = [j \in Jobs |-> NoSink]
  /\ result = NoResult

\* a job that has been admitted and has not emitted its terminal snapshot
Live(j) == jobs[j].pc \notin {"idle", "done"}
Running(j) == jobs[j].pc \notin {"idle", "queued", "done"}

\* dict assignment d[k] = v
Put(d, k, v) == [x \in (DOMAIN d) \cup {k} |-> IF x = k THEN v ELSE d[x]]

\* ------------------------------------------------------ snapshots
\* mutant: the cancelled snapshot reports the number of failed tables as
\* tables_completed
CancelledSnapshotWrongCount(j) ==
  [status |-> "cancelled", tables_completed |-> Len(jobs[j].failed_tables),
   tables_failed |-> jobs[j].failed_tables, total_tables |-> jobs[j].total_tables]

CancelledSnapshot(j) ==
  [status |-> "cancelled", tables_completed |-> jobs[j].tables_migrated,
   tables_failed |-> jobs[j].failed_tables, total_tables |-> jobs[j].total_tables]

StartingSnapshot(j) ==
  [status |-> "in_progress", current_table |-> jobs[j].table,
   tables_completed |-> jobs[j].tables_migrated, total_tables |-> jobs[j].total_tables]

TableCompletedSnapshot(j, migrated) ==
  [status |-> "in_progress", tables_completed |-> migrated,
   total_tables |-> jobs[j].total_tables]

CompletedSnapshot(j) ==
  [status |-> "completed", tables_completed |-> jobs[j].tables_migrated,
   tables_failed |-> jobs[j].failed_tables, total_tables |-> jobs[j].total_tables]

ErrorSnapshot(j) ==
  [status |-> "error", tables_completed |-> jobs[j].tables_migrated,
   tables_failed |-> jobs[j].failed_tables, total_tables |-> jobs[j].total_tables]

RowsSnapshot(j, progress, total) ==
  [status |-> "in_progress", current_table |-> jobs[j].table,
   current_progress |-> progress, total_rows |-> total]

\* ------------------------------------------------ _update_progress
\* mutant: the callbacks are not kept apart by task_id
CallbackOfAny(j) ==
  IF DOMAIN progress_callbacks = {} THEN 0
  ELSE progress_callbacks[CHOOSE t \in DOMAIN progress_callbacks : TRUE]

\* the sink registered under the worker's task_id when it emits (0: none)
CallbackOf(j) ==
  IF jobs[j].task_id \in DOMAIN progress_callbacks
    THEN progress_callbacks[jobs[j].task_id] ELSE 0

Emitted(h, data) ==
  [h EXCEPT !.last = data,
            !.nterminal = IF data.status \in Terminal THEN @ + 1 ELSE @,
            !.post_terminal = IF h.nterminal > 0 THEN @ + 1 ELSE @,
            !.last_completed =
               IF "tables_completed" \in DOMAIN data THEN data.tables_completed ELSE @,
            !.last_failed =
               IF "tables_failed" \in DOMAIN data THEN Len(data.tables_failed) ELSE @]

Delivered(s, data) ==
  [s EXCEPT !.nterminal = IF data.status \in Terminal THEN @ + 1 ELSE @,
            !.last = data.status]

\* hist and sinks after worker j has passed the snapshots of seq `datas`
\* to _update_progress, having started `started` database operations
RECURSIVE EmitAll(_, _)
EmitAll(h, datas) ==
  IF datas = <<>> THEN h ELSE EmitAll(Emitted(h, Head(datas)), Tail(datas))

RECURSIVE DeliverAll(_, _)
DeliverAll(s, datas) ==
  IF datas = <<>> THEN s ELSE DeliverAll(Delivered(s, Head(datas)), Tail(datas))

UpdateProgress(j, datas, started) ==
  /\ hist' = [hist EXCEPT ![j] =
       [EmitAll(@, datas) EXCEPT !.started = @ \/ started > 0,
                                 !.sink_raised = FALSE]]
  /\ sinks' = IF CallbackOf(j) = 0 THEN sinks
              ELSE [sinks EXCEPT ![CallbackOf(j)] = DeliverAll(@, datas)]

\* whether the callback raises when it is called with the snapshots `datas`
SinkOutcomes(j, datas) ==
  IF datas = <<>> \/ CallbackOf(j) = 0 THEN {FALSE} ELSE env.sink_raises

\* mutant: the callback is called without the try of line 694
EscapesUncaught(raised) == raised

\* lines 694-697: an exception of the callback is logged and
\* _update_progress returns; nothing reaches the caller
Escapes(raised) == FALSE

\* ------------------------------------------------- migrate_tables
\* the tables of the jobs admitted so far, which env.tables bounds
RECURSIVE TablesAdmitted(_)
TablesAdmitted(S) ==
  IF S = {} THEN 0
  ELSE LET j == CHOOSE x \in S : TRUE
       IN jobs[j].total_tables + TablesAdmitted(S \ {j})

ConnectionsKnown(src, tgt) == src \in DOMAIN engines /\ tgt \in DOMAIN engines

\* lines 50-51: the callback is stored only when one is given
CallbacksAfterStart(tid, cb, j) ==
  IF cb THEN Put(progress_callbacks, tid, j) ELSE progress_callbacks

\* line 52
FlagsAfterStart(tid) == Put(cancel_flags, tid, FALSE)

StartMigration(tid, src, tgt, n, cb) ==
  /\ njobs < env.calls
  /\ n <= env.tables - TablesAdmitted(Jobs)
  /\ IF ~ConnectionsKnown(src, tgt)
       THEN /\ result' = [op |-> "start", id |-> tid, ret |-> "ValueError"]
            /\ UNCHANGED <<env, target_rows, engines, handles, progress_callbacks, cancel_flags, njobs, jobs, hist, sinks>>
       ELSE LET j == njobs + 1 IN
            /\ progress_callbacks' = CallbacksAfterStart(tid, cb, j)
            /\ cancel_flags' = FlagsAfterStart(tid)
            /\ njobs' = j
            /\ jobs' = [jobs EXCEPT ![j] =
                 [IdleJob EXCEPT !.pc = "queued", !.task_id = tid,
                                 !.sink = IF cb THEN j ELSE 0, !.total_tables = n,
                                 !.source_db_type = engines[src].type,
                                 !.target_db_type = engines[tgt].type]]
            /\ result' = [op |-> "start", id |-> tid, ret |-> "started"]
            /\ UNCHANGED <<env, target_rows, engines, handles, hist, sinks>>

\* ----------------------------------------------- cancel_migration
\* mutant: the flag is set without the membership test of line 701
FlagsAfterCancelAlways(tid) == Put(cancel_flags, tid, TRUE)

FlagsAfterCancel(tid) ==
  IF tid \in DOMAIN cancel_flags
    THEN [cancel_flags EXCEPT ![tid] = TRUE]
    ELSE cancel_flags

CancelReturn(tid) ==
  IF tid \in DOMAIN cancel_flags THEN "cancelling" ELSE "not_found"

\* The first accepted cancel that reaches worker j while it runs is
\* remembered, with the table in progress, and so is a cancel accepted while
\* job j waits in the executor's queue.
NoteCancel(tid, j) ==
  IF /\ tid \in DOMAIN cancel_flags
     /\ jobs[j].task_id = tid
     /\ Running(j)
     /\ ~hist[j].cancel_seen
    THEN [hist[j] EXCEPT
            !.cancel_seen = TRUE,
            !.cancel_table = IF jobs[j].pc \in TablePcs THEN jobs[j].table ELSE 0]
    ELSE IF /\ tid \in DOMAIN cancel_flags
            /\ jobs[j].task_id = tid
            /\ jobs[j].pc = "queued"
      THEN [hist[j] EXCEPT !.cancel_queued = TRUE]
      ELSE hist[j]

CancelMigration(tid) ==
  /\ cancel_flags' = FlagsAfterCancel(tid)
  /\ result' = [op |-> "cancel", id |-> tid, ret |-> CancelReturn(tid)]
  /\ hist' = [j \in Jobs |-> NoteCancel(tid, j)]
  /\ UNCHANGED <<env, target_rows, engines, handles, progress_callbacks, njobs, jobs, sinks>>

\* ------------------------------------------- _migrate_tables_sync
\* self.cancel_flags.get(task_id, False)
CancelRequested(j) ==
  jobs[j].task_id \in DOMAIN cancel_flags /\ cancel_flags[jobs[j].task_id]

\* mutant: the pool starts a queued job whether or not a worker is free
WorkerStartUnbounded(j) ==
  /\ jobs[j].pc = "queued"
  /\ \A i \in Jobs : i < j => jobs[i].pc # "queued"
  /\ jobs' = [jobs EXCEPT ![j].pc = "open_engines"]
  /\ result' = NoResult
  /\ UNCHANGED <<env, target_rows, engines, handles, progress_callbacks, cancel_flags, njobs, hist, sinks>>

\* ThreadPoolExecutor(max_workers=5): a queued job starts when a worker is
\* free, in submission order
WorkerStart(j) ==
  /\ jobs[j].pc = "queued"
  /\ \A i \in Jobs : i < j => jobs[i].pc # "queued"
  /\ Cardinality({i \in Jobs : Running(i)}) < max_workers
  /\ jobs' = [jobs EXCEPT ![j].pc = "open_engines"]
  /\ result' = NoResult
  /\ UNCHANGED <<env, target_rows, engines, handles, progress_callbacks, cancel_flags, njobs, hist, sinks>>

\* mutant: the loop steps over the table that follows
NextTableSkips(j) ==
  [jobs[j] EXCEPT !.table = @ + 2, !.pc = "loop", !.error = "none",
                  !.row_count = 0, !.true_rows = 0, !.rows_processed = 0,
                  !.last_id = 0, !.offset = 0, !.pk_column = FALSE, !.df_len = 0,
                  !.pk_cols = 0, !.chunks = 0]

\* the next iteration of the loop of line 114: the locals of the table's
\* copy are gone
NextTable(j) ==
  [jobs[j] EXCEPT !.table = @ + 1, !.pc = "loop", !.error = "none",
                  !.row_count = 0, !.true_rows = 0, !.rows_processed = 0,
                  !.last_id = 0, !.offset = 0, !.pk_column = FALSE, !.df_len = 0,
                  !.pk_cols = 0, !.chunks = 0]

\* mutant: the increment of line 183 also runs for a failed table
FailTableCounted(j, step) ==
  [NextTable(j) EXCEPT
     !.failed_tables = Append(@, [table |-> jobs[j].table, error |-> step]),
     !.tables_migrated = @ + 1,
     !.error = step]

\* lines 191-193: the per-table handler
FailTable(j, step) ==
  [NextTable(j) EXCEPT
     !.failed_tables = Append(@, [table |-> jobs[j].table, error |-> step]),
     !.error = step]

\* mutant: the increment of line 183 is missing
FinishTableNoCount(j) == NextTable(j)

\* lines 183-189 and the next iteration
FinishTable(j) ==
  [NextTable(j) EXCEPT !.tables_migrated = @ + 1]

\* mutant: the return of line 124 is missing and the loop body goes on
AfterCancelledNoReturn(j) == [jobs[j] EXCEPT !.pc = "inspect", !.error = "none"]

\* after the cancelled snapshot, line 124 returns
AfterCancelled(j) == [jobs[j] EXCEPT !.pc = "done", !.error = "none"]

\* what the worker would do with an exception that left _update_progress:
\* inside the try of a table (lines 126-193) the per-table handler takes it,
\* anywhere else it ends the worker
CallbackRaised(j, normal) ==
  IF jobs[j].pc \in TablePcs \/ normal.pc \in TablePcs
    THEN FailTable(j, "callback")
    ELSE [jobs[j] EXCEPT !.pc = "done", !.error = "callback"]

\* a step of worker j that passes `datas` to _update_progress and, those
\* calls having returned, leaves the worker's locals as `normal`
Emit(j, normal, datas, started) ==
  \E raised \in SinkOutcomes(j, datas) :
    /\ jobs' = [jobs EXCEPT ![j] =
         IF Escapes(raised) THEN CallbackRaised(j, normal) ELSE normal]
    /\ hist' = [hist EXCEPT ![j] =
         [EmitAll(@, datas) EXCEPT !.started = @ \/ started > 0,
                                   !.sink_raised = raised]]
    /\ sinks' = IF CallbackOf(j) = 0 THEN sinks
                ELSE [sinks EXCEPT ![CallbackOf(j)] = DeliverAll(@, datas)]

\* mutant: the outer handler reports the error and the table loop is
\* entered all the same
OrchestrationFailedContinues(j) ==
  [jobs[j] EXCEPT !.pc = "loop", !.error = "open_engines"]

\* lines 96-111 and the outer handler, lines 206-215
OrchestrationFailed(j) ==
  [jobs[j] EXCEPT !.pc = "done", !.error = "open_engines"]

OpenEngines(j) ==
  /\ jobs[j].pc = "open_engines"
  /\ \E ok \in BOOLEAN :
       IF ok
         THEN /\ jobs' = [jobs EXCEPT ![j].pc = "loop"]
              /\ UNCHANGED <<hist, sinks>>
         ELSE Emit(j, OrchestrationFailed(j), <<ErrorSnapshot(j)>>, 0)
  /\ result' = NoResult
  /\ UNCHANGED <<env, target_rows, engines, handles, progress_callbacks, cancel_flags, njobs>>

\* lines 114-133 (loop head) and 195-204 (loop exhausted)
LoopCheck(j) ==
  /\ jobs[j].pc = "loop"
  /\ IF jobs[j].table > jobs[j].total_tables
       THEN Emit(j, [jobs[j] EXCEPT !.pc = "done", !.error = "none"],
                 <<CompletedSnapshot(j)>>, 0)
       ELSE IF CancelRequested(j)
         THEN Emit(j, AfterCancelled(j), <<CancelledSnapshot(j)>>, 0)
         ELSE Emit(j, [jobs[j] EXCEPT !.pc = "inspect", !.error = "none"],
                   <<StartingSnapshot(j)>>, 1)
  /\ result' = NoResult
  /\ UNCHANGED <<env, target_rows, engines, handles, progress_callbacks, cancel_flags, njobs>>

\* lines 135-139: inspector.inspect_table
Inspect(j) ==
  /\ jobs[j].pc = "inspect"
  /\ \E ok \in BOOLEAN :
       IF ok
         THEN /\ jobs' = [jobs EXCEPT ![j].pc = "ddl"]
              /\ UpdateProgress(j, <<>>, 1)
         ELSE /\ jobs' = [jobs EXCEPT ![j] = FailTable(j, "inspect")]
              /\ UpdateProgress(j, <<>>, 0)
  /\ result' = NoResult
  /\ UNCHANGED <<env, target_rows, engines, handles, progress_callbacks, cancel_flags, njobs>>

\* lines 141-158: a failing target_engine.connect() fails the table, a
\* failing CREATE TABLE is logged
DdlOutcomes == {"ok", "connect_error", "execute_error"}

\* mutant: the exception of the CREATE TABLE statement is not caught
AfterDdlRaises(j, out) ==
  CASE out = "ok" -> [jobs[j] EXCEPT !.pc = "count", !.error = "none"]
    [] out = "connect_error" -> FailTable(j, "connect")
    [] out = "execute_error" -> FailTable(j, "ddl")

\* lines 151-158: the try around connection.execute only logs a warning
AfterDdl(j, out) ==
  CASE out = "ok" -> [jobs[j] EXCEPT !.pc = "count", !.error = "none"]
    [] out = "connect_error" -> FailTable(j, "connect")
    [] out = "execute_error" -> [jobs[j] EXCEPT !.pc = "count", !.error = "ddl"]

Ddl(j) ==
  /\ jobs[j].pc = "ddl"
  /\ \E out \in DdlOutcomes :
       /\ jobs' = [jobs EXCEPT ![j] = AfterDdl(j, out)]
       /\ UpdateProgress(j, <<>>, IF out = "connect_error" THEN 0 ELSE 1)
  /\ result' = NoResult
  /\ UNCHANGED <<env, target_rows, engines, handles, progress_callbacks, cancel_flags, njobs>>

\* _estimate_row_count, lines 217-239: any exception gives 0
EstimateRowCount(returned, raised) == IF raised THEN 0 ELSE returned

\* mutant: a table of exactly a million rows is copied in chunks
ChunkedAtThreshold(row_count) == row_count >= Threshold

\* line 164
Chunked(row_count) == row_count > Threshold

\* lines 160-181, and the first snapshot of _migrate_table_single (253-259)
Count(j) ==
  /\ jobs[j].pc = "count"
  /\ \E p \in env.profiles, raised \in BOOLEAN :
       LET rc == EstimateRowCount(p[1], raised) IN
       IF Chunked(rc)
         THEN /\ jobs' = [jobs EXCEPT ![j].pc = "get_pk", ![j].row_count = rc,
                                      ![j].true_rows = p[2],
                                      ![j].error = IF raised THEN "count" ELSE "none"]
              /\ UpdateProgress(j, <<>>, 1)
         ELSE Emit(j, [jobs[j] EXCEPT !.pc = "single_read", !.row_count = rc,
                                      !.true_rows = p[2],
                                      !.error = IF raised THEN "count" ELSE "none"],
                   <<RowsSnapshot(j, 0, rc)>>, 1)
  /\ result' = NoResult
  /\ UNCHANGED <<env, target_rows, engines, handles, progress_callbacks, cancel_flags, njobs>>

\* ------------------------------------------ _migrate_table_single
\* lines 261-279: pd.read_sql of the whole table, then the "Writing" snapshot
SingleRead(j) ==
  /\ jobs[j].pc = "single_read"
  /\ \E ok \in BOOLEAN :
       IF ok
         THEN Emit(j, [jobs[j] EXCEPT !.pc = "single_write", !.error = "none",
                                      !.df_len = jobs[j].true_rows],
                   <<RowsSnapshot(j, 0, jobs[j].true_rows)>>, 1)
         ELSE /\ jobs' = [jobs EXCEPT ![j] = FailTable(j, "read")]
              /\ UpdateProgress(j, <<>>, 0)
  /\ result' = NoResult
  /\ UNCHANGED <<env, target_rows, engines, handles, progress_callbacks, cancel_flags, njobs>>

\* lines 303-306 and 336-340: the targets whose table is truncated before
\* the insert
TruncatingTargets == {"mysql", "sqlserver"}

\* how the write of lines 281-351 ends: the TRUNCATE statement raises, the
\* insert raises, or neither does
WriteOutcomes(target_db_type) ==
  IF target_db_type \in TruncatingTargets /\ TRUE \in env.truncate_raises
    THEN {"ok", "truncate_error", "insert_error"}
    ELSE {"ok", "insert_error"}

\* TRUNCATE and the insert stand in the one try of lines 252-363, whose
\* handler re-raises to the per-table handler
WriteError(out) == IF out = "truncate_error" THEN "truncate" ELSE "write"

\* whether the TRUNCATE that was executed empties the table for good.  In
\* MySQL the statement commits by itself.  In SQL Server it belongs to the
\* transaction of the connection of lines 337-340, which is closed without
\* a commit: the statement lasts only when the driver runs in autocommit.
TruncateLasts(target_db_type) ==
  IF target_db_type = "sqlserver" THEN BOOLEAN ELSE {TRUE}

\* the rows of the target table after the write of lines 281-351 over
\* `rows` rows: PostgreSQL (COPY) and Oracle (INSERT) add the frame, in one
\* transaction; MySQL and SQL Server truncate first and then add the frame
RowsAfterSingleWrite(rows, df_len, target_db_type, out, lasts) ==
  IF target_db_type \in TruncatingTargets
    THEN CASE out = "truncate_error" -> rows
           [] out = "insert_error" -> IF lasts THEN 0 ELSE rows
           [] out = "ok" -> IF lasts THEN df_len ELSE rows + df_len
    ELSE IF out = "ok" THEN rows + df_len ELSE rows

\* target_rows after worker j has written to its table
TargetAfter(j, rows) ==
  IF jobs[j].table \in DOMAIN target_rows
    THEN [target_rows EXCEPT ![jobs[j].table] = rows]
    ELSE target_rows

\* lines 281-359 (the bulk write and "Completed writing"), then 183-189
SingleWrite(j) ==
  /\ jobs[j].pc = "single_write"
  /\ \E out \in WriteOutcomes(jobs[j].target_db_type),
        lasts \in TruncateLasts(jobs[j].target_db_type) :
       /\ target_rows' =
            IF jobs[j].table \in DOMAIN target_rows
              THEN TargetAfter(j, RowsAfterSingleWrite(target_rows[jobs[j].table],
                                    jobs[j].df_len, jobs[j].target_db_type, out, lasts))
              ELSE target_rows
       /\ IF out = "ok"
            THEN Emit(j, FinishTable(j),
                      <<RowsSnapshot(j, jobs[j].df_len, jobs[j].df_len),
                        TableCompletedSnapshot(j, FinishTable(j).tables_migrated)>>, 0)
            ELSE /\ jobs' = [jobs EXCEPT ![j] = FailTable(j, WriteError(out))]
                 /\ UpdateProgress(j, <<>>, 0)
  /\ result' = NoResult
  /\ UNCHANGED <<env, engines, handles, progress_callbacks, cancel_flags, njobs>>

\* ----------------------------------------- _migrate_table_chunked
\* _get_primary_key, lines 405-454: the query asks for the columns of the
\* primary key and is cut to its first row, so the result is a column name
\* whenever the key has a column, and None when the table has no primary
\* key or the lookup raises.  TRUE stands for a column name.
GetPrimaryKey(pk_cols, raised) == ~raised /\ pk_cols > 0

GetPk(j) ==
  /\ jobs[j].pc = "get_pk"
  /\ \E pk_cols \in env.pk_cols, raised \in env.pk_raises :
       jobs' = [jobs EXCEPT ![j].pc = "chunk_loop",
                            ![j].pk_cols = pk_cols,
                            ![j].pk_column = GetPrimaryKey(pk_cols, raised),
                            ![j].error = IF raised THEN "pk" ELSE "none",
                            ![j].rows_processed = 0, ![j].last_id = 0,
                            ![j].offset = 0]
  /\ result' = NoResult
  /\ UNCHANGED <<env, target_rows, engines, handles, progress_callbacks, cancel_flags, njobs, hist, sinks>>

\* lines 472-482 and 570-580: the loop condition, the cancel poll and the
\* "Processing" snapshot; leaving the loop returns to lines 183-189
ChunkLoop(j) ==
  /\ jobs[j].pc = "chunk_loop"
  /\ IF jobs[j].rows_processed < jobs[j].row_count /\ ~CancelRequested(j)
       THEN Emit(j, [jobs[j] EXCEPT !.pc = "chunk_read"],
                 <<RowsSnapshot(j, jobs[j].rows_processed, jobs[j].row_count)>>, 1)
       ELSE Emit(j, FinishTable(j),
                 <<TableCompletedSnapshot(j, FinishTable(j).tables_migrated)>>, 0)
  /\ result' = NoResult
  /\ UNCHANGED <<env, target_rows, engines, handles, progress_callbacks, cancel_flags, njobs>>

\* rows the chunk query returns from a static source with keys 1..true_rows:
\* keyset reads the keys above last_id, offset reads the rows from offset on
ChunkRows(j) ==
  IF jobs[j].pk_column
    THEN Min(chunk_size, jobs[j].true_rows - jobs[j].last_id)
    ELSE Min(chunk_size, Max(0, jobs[j].true_rows - jobs[j].offset))

\* whether pd.read_sql raises.  The first keyset query ends in LIMIT for
\* every source but Oracle (lines 486-499); SQL Server has no LIMIT clause
\* and rejects the statement.
ReadRaises(j) ==
  IF jobs[j].pk_column /\ jobs[j].last_id = 0 /\ jobs[j].source_db_type = "sqlserver"
    THEN {TRUE}
    ELSE env.io_raises

\* df[pk_column].iloc[-1], line 532.  With ORDER BY and LIMIT or TOP the
\* chunk holds the smallest keys above last_id.  The Oracle queries filter
\* on ROWNUM in the block that sorts (lines 488-492, 503-508), so the chunk
\* is some chunk_size rows above last_id, sorted afterwards: its last key
\* is the next in key order or any later one, up to the largest.
LastIds(j) ==
  IF jobs[j].source_db_type = "oracle"
    THEN {jobs[j].last_id + ChunkRows(j), jobs[j].true_rows}
    ELSE {jobs[j].last_id + ChunkRows(j)}

\* lines 484-537 and 582-608: the read; an empty frame leaves the loop
ChunkRead(j) ==
  /\ jobs[j].pc = "chunk_read"
  /\ \E raised \in ReadRaises(j), last_id \in LastIds(j) :
       IF raised
         THEN /\ jobs' = [jobs EXCEPT ![j] = FailTable(j, "read")]
              /\ UpdateProgress(j, <<>>, 0)
         ELSE IF ChunkRows(j) = 0
           THEN Emit(j, FinishTable(j),
                     <<TableCompletedSnapshot(j, FinishTable(j).tables_migrated)>>, 0)
           ELSE /\ jobs' = [jobs EXCEPT ![j].pc = "chunk_write",
                                        ![j].df_len = ChunkRows(j),
                                        ![j].last_id =
                                           IF jobs[j].pk_column THEN last_id ELSE @]
                /\ UpdateProgress(j, <<>>, 1)
  /\ result' = NoResult
  /\ UNCHANGED <<env, target_rows, engines, handles, progress_callbacks, cancel_flags, njobs>>

\* lines 539-553 and 610-625: _insert_chunk and the "Processed" snapshot
\* whether _insert_chunk raises.  The offset query for an Oracle source
\* selects ROWNUM AS rnum next to the table's columns (lines 584-590), so the
\* frame has a column the target table was not created with and the insert
\* of lines 627-683, which names the frame's columns, is rejected.
WriteRaises(j) ==
  IF ~jobs[j].pk_column /\ jobs[j].source_db_type = "oracle"
    THEN {TRUE}
    ELSE env.io_raises

ChunkWrite(j) ==
  /\ jobs[j].pc = "chunk_write"
  /\ \E raised \in WriteRaises(j) :
       IF ~raised
         THEN /\ target_rows' =
                   IF jobs[j].table \in DOMAIN target_rows
                     THEN TargetAfter(j, target_rows[jobs[j].table] + jobs[j].df_len)
                     ELSE target_rows
              /\ Emit(j, [jobs[j] EXCEPT !.pc = "chunk_loop",
                                      !.chunks = @ + 1,
                                      !.rows_processed = @ + jobs[j].df_len,
                                      !.offset =
                                         IF jobs[j].pk_column THEN @ ELSE @ + chunk_size],
                   <<RowsSnapshot(j, jobs[j].rows_processed + jobs[j].df_len,
                                  jobs[j].row_count)>>, 0)
         ELSE /\ jobs' = [jobs EXCEPT ![j] = FailTable(j, "write")]
              /\ UpdateProgress(j, <<>>, 0)
  /\ result' = NoResult
  /\ UNCHANGED <<env, target_rows, engines, handles, progress_callbacks, cancel_flags, njobs>>

\* --------------------------------------------------- specification
Next ==
  \/ \E tid \in env.ids, src \in env.sources, tgt \in env.targets,
        n \in 0..Max(MaxTables, MaxTablesJobs),
        cb \in env.callbacks : StartMigration(tid, src, tgt, n, cb)
  \/ \E tid \in env.cancels : CancelMigration(tid)
  \/ \E j \in Jobs : WorkerStart(j)
  \/ \E j \in Jobs : OpenEngines(j)
  \/ \E j \in Jobs : LoopCheck(j)
  \/ \E j \in Jobs : Inspect(j)
  \/ \E j \in Jobs : Ddl(j)
  \/ \E j \in Jobs : Count(j)
  \/ \E j \in Jobs : SingleRead(j)
  \/ \E j \in Jobs : SingleWrite(j)
  \/ \E j \in Jobs : GetPk(j)
  \/ \E j \in Jobs : ChunkLoop(j)
  \/ \E j \in Jobs : ChunkRead(j)
  \/ \E j \in Jobs : ChunkWrite(j)

\* one job of up to MaxTables tables, every row profile, with a callback
\* that may raise at any call, towards a MySQL or SQL Server target (or the
\* PostgreSQL connection, when the caller passes it as the target)
Init ==
  \E target_db_type \in TruncatingTargets :
    InitWith([calls |-> 1, tables |-> MaxTables, profiles |-> RowProfiles,
              ids |-> TaskIds, cancels |-> TaskIds, callbacks |-> BOOLEAN,
              sink_raises |-> BOOLEAN, targets |-> ConnArgs,
              registry |-> RegisteredWith(target_db_type),
              pk_cols |-> PkCols, pk_raises |-> BOOLEAN,
              truncate_raises |-> BOOLEAN, io_raises |-> BOOLEAN,
              sources |-> {"source", "missing"}, observed |-> {}])
Spec == Init /\ [][Next]_vars

\* <<estimate, rows>> at the two sides of the threshold
BoundaryProfiles == {<<Threshold, 2>>, <<Threshold + 1, 2>>}

\* one job of up to MaxTablesThreshold tables whose row counts are the
\* threshold and the threshold plus one
MaxTablesThreshold == 2

InitThreshold ==
  InitWith([calls |-> 1, tables |-> MaxTablesThreshold, profiles |-> BoundaryProfiles,
            ids |-> {"a"}, cancels |-> {"a"}, callbacks |-> BOOLEAN,
            sink_raises |-> {FALSE}, targets |-> {"target", "missing"},
            registry |-> Registered, pk_cols |-> {0, 1}, pk_raises |-> {FALSE},
            truncate_raises |-> {FALSE}, io_raises |-> BOOLEAN,
            sources |-> {"source", "missing"}, observed |-> {}])
SpecThreshold == InitThreshold /\ [][Next]_vars

\* up to MaxJobs jobs with up to MaxTablesJobs tables between them, started
\* at any time, so that they run one after the other or together; their
\* callbacks return normally
InitJobs ==
  InitWith([calls |-> MaxJobs, tables |-> MaxTablesJobs, profiles |-> RowProfiles,
            ids |-> TaskIds, cancels |-> TaskIds, callbacks |-> BOOLEAN,
            sink_raises |-> {FALSE}, targets |-> {"target", "missing"},
            registry |-> Registered, pk_cols |-> {0, 1}, pk_raises |-> {FALSE},
            truncate_raises |-> {FALSE}, io_raises |-> BOOLEAN,
            sources |-> {"source", "missing"}, observed |-> {}])
SpecJobs == InitJobs /\ [][Next]_vars

\* one call more than the pool has workers, all under one task id and
\* without a callback, with one table between them whose row count is
\* above the threshold; the only cancel is of an id that was never started
InitPool ==
  InitWith([calls |-> PoolJobs, tables |-> 1,
            profiles |-> {<<Threshold + 2 * chunk_size, chunk_size + (chunk_size \div 2)>>},
            ids |-> {"a"}, cancels |-> {"b"}, callbacks |-> {FALSE},
            sink_raises |-> {FALSE}, targets |-> {"target", "missing"},
            registry |-> Registered, pk_cols |-> {0, 1}, pk_raises |-> {FALSE},
            truncate_raises |-> {FALSE}, io_raises |-> BOOLEAN,
            sources |-> {"source", "missing"}, observed |-> {}])
SpecPool == InitPool /\ [][Next]_vars

\* ==================================== SchemaInspector (src/db/inspector.py)
\* A string is the sequence of its pieces: "(", ")", a blank, and the runs of
\* other characters between them; the literals the code writes into the SQL
\* are one piece each.  Two strings built from the same pieces are equal.
EngineKinds == {"mysql", "postgresql", "oracle", "sqlserver"}

\* None, and the empty string: both are falsy
None == <<>>

\* str.lower() of a piece; the pieces not listed have no capital letter
LowerPiece(p) ==
  CASE p = "VARCHAR" -> "varchar"
    [] p = "VARCHAR2" -> "varchar2"
    [] p = "TINYINT" -> "tinyint"
    [] p = "NUMBER" -> "number"
    [] p = "INTEGER" -> "integer"
    [] p = "TIMESTAMP" -> "timestamp"
    [] p = "GEOGRAPHY" -> "geography"
    [] p = "Double" -> "double"
    [] p = "Precision" -> "precision"
    [] p = "NULL" -> "null"
    [] p = "Null" -> "null"
    [] p = "None" -> "none"
    [] OTHER -> p

Lower(s) == [i \in DOMAIN s |-> LowerPiece(s[i])]

\* the index of the first piece p of s, 0 when there is none
FirstIndex(s, p) ==
  IF \E i \in DOMAIN s : s[i] = p
    THEN CHOOSE i \in DOMAIN s : s[i] = p /\ \A k \in 1..(i - 1) : s[k] # p
    ELSE 0

\* s.split(p)[0]
Before(s, p) == IF FirstIndex(s, p) = 0 THEN s ELSE SubSeq(s, 1, FirstIndex(s, p) - 1)

\* s.split("(")[1].split(")")[0], for a string that contains "("
PrecisionPart(s) ==
  Before(Before(SubSeq(s, FirstIndex(s, "(") + 1, Len(s)), "("), ")")

Blank(p) == p \in {" ", "    "}

\* str.strip()
RECURSIVE Strip(_)
Strip(s) ==
  IF s = <<>> THEN s
  ELSE IF Blank(Head(s)) THEN Strip(Tail(s))
  ELSE IF Blank(s[Len(s)]) THEN Strip(SubSeq(s, 1, Len(s) - 1))
  ELSE s

\* lines 82-219
type_mappings(src, tgt) ==
  CASE src = "mysql" /\ tgt = "postgresql" ->
         {<< <<"int">>, <<"integer">> >>, << <<"bigint">>, <<"bigint">> >>,
          << <<"varchar">>, <<"varchar">> >>, << <<"text">>, <<"text">> >>,
          << <<"datetime">>, <<"timestamp">> >>, << <<"timestamp">>, <<"timestamp">> >>,
          << <<"float">>, <<"float">> >>,
          << <<"double">>, <<"double", " ", "precision">> >>,
          << <<"decimal">>, <<"decimal">> >>,
          << <<"tinyint", "(", "1", ")">>, <<"boolean">> >>}
    [] src = "mysql" /\ tgt = "oracle" ->
         {<< <<"int">>, <<"NUMBER", "(", "10", ")">> >>,
          << <<"bigint">>, <<"NUMBER", "(", "19", ")">> >>,
          << <<"varchar">>, <<"VARCHAR2">> >>, << <<"text">>, <<"CLOB">> >>,
          << <<"datetime">>, <<"TIMESTAMP">> >>, << <<"timestamp">>, <<"TIMESTAMP">> >>,
          << <<"float">>, <<"FLOAT">> >>, << <<"double">>, <<"FLOAT">> >>,
          << <<"decimal">>, <<"NUMBER">> >>,
          << <<"tinyint", "(", "1", ")">>, <<"NUMBER", "(", "1", ")">> >>}
    [] src = "mysql" /\ tgt = "sqlserver" ->
         {<< <<"int">>, <<"INT">> >>, << <<"bigint">>, <<"BIGINT">> >>,
          << <<"varchar">>, <<"VARCHAR">> >>, << <<"text">>, <<"TEXT">> >>,
          << <<"datetime">>, <<"DATETIME">> >>, << <<"timestamp">>, <<"DATETIME">> >>,
          << <<"float">>, <<"FLOAT">> >>, << <<"double">>, <<"FLOAT">> >>,
          << <<"decimal">>, <<"DECIMAL">> >>, << <<"tinyint", "(", "1", ")">>, <<"BIT">> >>}
    [] src = "postgresql" /\ tgt = "mysql" ->
         {<< <<"integer">>, <<"INT">> >>, << <<"bigint">>, <<"BIGINT">> >>,
          << <<"varchar">>, <<"VARCHAR">> >>, << <<"text">>, <<"TEXT">> >>,
          << <<"timestamp">>, <<"DATETIME">> >>, << <<"float">>, <<"FLOAT">> >>,
          << <<"double", " ", "precision">>, <<"DOUBLE">> >>,
          << <<"numeric">>, <<"DECIMAL">> >>,
          << <<"boolean">>, <<"TINYINT", "(", "1", ")">> >>}
    [] src = "postgresql" /\ tgt = "oracle" ->
         {<< <<"integer">>, <<"NUMBER", "(", "10", ")">> >>,
          << <<"bigint">>, <<"NUMBER", "(", "19", ")">> >>,
          << <<"varchar">>, <<"VARCHAR2">> >>, << <<"text">>, <<"CLOB">> >>,
          << <<"timestamp">>, <<"TIMESTAMP">> >>, << <<"float">>, <<"FLOAT">> >>,
          << <<"double", " ", "precision">>, <<"FLOAT">> >>,
          << <<"numeric">>, <<"NUMBER">> >>,
          << <<"boolean">>, <<"NUMBER", "(", "1", ")">> >>}
    [] src = "postgresql" /\ tgt = "sqlserver" ->
         {<< <<"integer">>, <<"INT">> >>, << <<"bigint">>, <<"BIGINT">> >>,
          << <<"varchar">>, <<"VARCHAR">> >>, << <<"text">>, <<"TEXT">> >>,
          << <<"timestamp">>, <<"DATETIME">> >>, << <<"float">>, <<"FLOAT">> >>,
          << <<"double", " ", "precision">>, <<"FLOAT">> >>,
          << <<"numeric">>, <<"DECIMAL">> >>, << <<"boolean">>, <<"BIT">> >>}
    [] src = "oracle" /\ tgt = "mysql" ->
         {<< <<"number", "(", "10", ")">>, <<"INT">> >>,
          << <<"number", "(", "19", ")">>, <<"BIGINT">> >>,
          << <<"varchar2">>, <<"VARCHAR">> >>, << <<"clob">>, <<"TEXT">> >>,
          << <<"timestamp">>, <<"DATETIME">> >>, << <<"float">>, <<"FLOAT">> >>,
          << <<"number">>, <<"DECIMAL">> >>,
          << <<"number", "(", "1", ")">>, <<"TINYINT", "(", "1", ")">> >>}
    [] src = "oracle" /\ tgt = "postgresql" ->
         {<< <<"number", "(", "10", ")">>, <<"INTEGER">> >>,
          << <<"number", "(", "19", ")">>, <<"BIGINT">> >>,
          << <<"varchar2">>, <<"VARCHAR">> >>, << <<"clob">>, <<"TEXT">> >>,
          << <<"timestamp">>, <<"TIMESTAMP">> >>, << <<"float">>, <<"FLOAT">> >>,
          << <<"number">>, <<"NUMERIC">> >>,
          << <<"number", "(", "1", ")">>, <<"BOOLEAN">> >>}
    [] src = "oracle" /\ tgt = "sqlserver" ->
         {<< <<"number", "(", "10", ")">>, <<"INT">> >>,
          << <<"number", "(", "19", ")">>, <<"BIGINT">> >>,
          << <<"varchar2">>, <<"VARCHAR">> >>, << <<"clob">>, <<"TEXT">> >>,
          << <<"timestamp">>, <<"DATETIME">> >>, << <<"float">>, <<"FLOAT">> >>,
          << <<"number">>, <<"DECIMAL">> >>, << <<"number", "(", "1", ")">>, <<"BIT">> >>}
    [] src = "sqlserver" /\ tgt = "mysql" ->
         {<< <<"int">>, <<"INT">> >>, << <<"bigint">>, <<"BIGINT">> >>,
          << <<"varchar">>, <<"VARCHAR">> >>, << <<"text">>, <<"TEXT">> >>,
          << <<"datetime">>, <<"DATETIME">> >>, << <<"float">>, <<"FLOAT">> >>,
          << <<"decimal">>, <<"DECIMAL">> >>, << <<"bit">>, <<"TINYINT", "(", "1", ")">> >>}
    [] src = "sqlserver" /\ tgt = "postgresql" ->
         {<< <<"int">>, <<"INTEGER">> >>, << <<"bigint">>, <<"BIGINT">> >>,
          << <<"varchar">>, <<"VARCHAR">> >>, << <<"text">>, <<"TEXT">> >>,
          << <<"datetime">>, <<"TIMESTAMP">> >>, << <<"float">>, <<"FLOAT">> >>,
          << <<"decimal">>, <<"NUMERIC">> >>, << <<"bit">>, <<"BOOLEAN">> >>}
    [] src = "sqlserver" /\ tgt = "oracle" ->
         {<< <<"int">>, <<"NUMBER", "(", "10", ")">> >>,
          << <<"bigint">>, <<"NUMBER", "(", "19", ")">> >>,
          << <<"varchar">>, <<"VARCHAR2">> >>, << <<"text">>, <<"CLOB">> >>,
          << <<"datetime">>, <<"TIMESTAMP">> >>, << <<"float">>, <<"FLOAT">> >>,
          << <<"decimal">>, <<"NUMBER">> >>, << <<"bit">>, <<"NUMBER", "(", "1", ")">> >>}
    [] OTHER -> {}
\* dict.get(key): None when the key is absent
Get(mapping, key) ==
  IF \E e \in mapping : e[1] = key
    THEN (CHOOSE e \in mapping : e[1] = key)[2]
    ELSE None

\* map_data_type, lines 75-245: the mapped type and the warnings logged
MapDataType(source_type_arg, source_db_type, target_db_type) ==
  LET source_type == Lower(source_type_arg)
      base_type == Lower(Strip(Before(source_type, "(")))
      mapping == type_mappings(source_db_type, target_db_type)
      mapped_type == Get(mapping, base_type)
      base_mapped == Get(mapping, base_type)
  IN IF source_db_type = target_db_type
       THEN [ret |-> source_type, warnings |-> 0]
     ELSE IF mapped_type # None
       THEN [ret |-> mapped_type, warnings |-> 0]
     ELSE IF FirstIndex(source_type, "(") # 0 /\ base_mapped # None
       THEN [ret |-> base_mapped \o <<"(">> \o PrecisionPart(source_type) \o <<")">>,
             warnings |-> 0]
     ELSE [ret |-> source_type, warnings |-> 1]

\* string concatenation: an empty string adds no piece
Cat(s) == SelectSeq(s, LAMBDA p : p # "")

\* sep.join(parts)
RECURSIVE Join(_, _)
Join(parts, sep) ==
  IF parts = <<>> THEN <<>>
  ELSE IF Len(parts) = 1 THEN Head(parts)
  ELSE Head(parts) \o <<sep>> \o Join(Tail(parts), sep)

\* mutant: IF NOT EXISTS for every target
CreateHeadAlways(table_name, target_db_type) ==
  <<"CREATE TABLE IF NOT EXISTS ", table_name, " (\n">>

\* lines 258-261
CreateHead(table_name, target_db_type) ==
  IF target_db_type = "oracle"
    THEN <<"CREATE TABLE ", table_name, " (\n">>
    ELSE <<"CREATE TABLE IF NOT EXISTS ", table_name, " (\n">>

\* lines 271-275
DefaultClause(col) ==
  IF col.default # "" /\ LowerPiece(col.default) # "null" /\ col.default # ""
    THEN <<"DEFAULT ", col.default>>
    ELSE <<"">>

\* lines 266-277: one column definition
ColumnDef(col, source_db_type, target_db_type) ==
  LET col_type == MapDataType(col.type, source_db_type, target_db_type).ret
      nullable == IF col.nullable THEN "" ELSE "NOT NULL"
  IN Strip(Cat(<<"    ", col.name, " ">> \o col_type \o <<" ", nullable, " ">>
                 \o DefaultClause(col)))

\* mutant: the definitions come out in the reverse of the column order
ColumnDefsReversed(columns, source_db_type, target_db_type) ==
  [i \in DOMAIN columns |->
     ColumnDef(columns[Len(columns) + 1 - i], source_db_type, target_db_type)]

\* lines 264-277: the loop over the columns
ColumnDefs(columns, source_db_type, target_db_type) ==
  [i \in DOMAIN columns |-> ColumnDef(columns[i], source_db_type, target_db_type)]

\* lines 280-282
PrimaryKeyDef(primary_keys) ==
  IF primary_keys # <<>>
    THEN << <<"    PRIMARY KEY (">> \o Join([i \in DOMAIN primary_keys |-> <<primary_keys[i]>>], ", ")
            \o <<")">> >>
    ELSE <<>>

\* lines 289-290
EngineSuffix(target_db_type) ==
  IF target_db_type = "mysql"
    THEN <<" ENGINE=InnoDB DEFAULT CHARSET=utf8mb4">>
    ELSE <<>>

\* generate_create_table_sql, lines 247-292; target_table_name "" is None
GenerateCreateTableSql(table_schema, source_db_type, target_db_type, target_table_name) ==
  LET table_name == IF target_table_name # "" THEN target_table_name
                    ELSE table_schema.table
      column_defs == ColumnDefs(table_schema.columns, source_db_type, target_db_type)
                       \o PrimaryKeyDef(table_schema.primary_keys)
  IN CreateHead(table_name, target_db_type)
       \o Join(column_defs, ",\n")
       \o <<"\n)">>
       \o EngineSuffix(target_db_type)

\* ------------------------------------------- inputs of the inspector
\* the longest column list
MaxColumns == 2

NativeTypes ==
  {<<"int">>, <<"INTEGER">>, <<"bigint">>, <<"text">>, <<"bit">>, <<"number">>,
   <<"varchar">>, <<"VARCHAR", "(", "255", ")">>, <<"varchar", "(", "50", ")">>,
   <<"varchar", " ", "(", "50", ")">>,
   <<"tinyint", "(", "1", ")">>, <<"TINYINT", "(", "1", ")">>,
   <<"number", "(", "10", ")">>, <<"NUMBER", "(", "19", ")">>, <<"number", "(", "1", ")">>,
   <<"varchar2", "(", "200", ")">>, <<"VARCHAR2", "(", "200", ")">>,
   <<"decimal", "(", "10,2", ")">>, <<"timestamp">>, <<"TIMESTAMP">>,
   <<"double", " ", "precision">>, <<"Double", " ", "Precision">>,
   <<"geography">>, <<"GEOGRAPHY">>}

\* what the engine's introspection reports for a column (inspector.get_columns):
\* default is <<>> for Python's None, a column without a default, and <<d>>
\* for the SQL text d
ReflectedColumns ==
  {[name |-> "id", type |-> <<"INTEGER">>, nullable |-> FALSE, default |-> <<>>],
   [name |-> "name", type |-> <<"varchar", "(", "50", ")">>, nullable |-> TRUE,
    default |-> <<"">>],
   [name |-> "active", type |-> <<"tinyint", "(", "1", ")">>, nullable |-> FALSE,
    default |-> <<"0">>],
   [name |-> "note", type |-> <<"text">>, nullable |-> TRUE, default |-> <<"NULL">>],
   [name |-> "msg", type |-> <<"VARCHAR2", "(", "200", ")">>, nullable |-> TRUE,
    default |-> <<>>],
   [name |-> "ts", type |-> <<"TIMESTAMP">>, nullable |-> FALSE, default |-> <<>>]}

\* str(x) of a default: str(None) is "None"
Str(d) == IF d = <<>> THEN "None" ELSE d[1]

\* inspect_table, lines 45-51: the column as the schema carries it
ColumnInfo(col) ==
  [name |-> col.name, type |-> col.type, nullable |-> col.nullable,
   default |-> Str(col.default)]

SchemaColumns == {ColumnInfo(col) : col \in ReflectedColumns}

ColumnLists == UNION {[1..n -> SchemaColumns] : n \in 0..MaxColumns}

PrimaryKeyLists == {<<>>, <<"id">>, <<"id", "name">>, <<"name", "id">>}

TableSchemas ==
  {[table |-> "users", columns |-> cols, primary_keys |-> pks] :
     cols \in ColumnLists, pks \in PrimaryKeyLists}

\* the calls of the two functions: what the caller passes
MapDataTypeCalls ==
  {[op |-> "map_data_type", source_type |-> t, source_db_type |-> src,
    target_db_type |-> tgt] :
     t \in NativeTypes, src \in EngineKinds, tgt \in EngineKinds}

GenerateCreateTableSqlCalls ==
  {[op |-> "generate_create_table_sql", table_schema |-> sch, source_db_type |-> src,
    target_db_type |-> tgt, target_table_name |-> name] :
     sch \in TableSchemas, src \in EngineKinds, tgt \in EngineKinds,
     name \in {"", "APP.USERS"}}

\* the call of map_data_type returns
MapDataTypeCall ==
  /\ result \in MapDataTypeCalls
  /\ LET r == MapDataType(result.source_type, result.source_db_type,
                          result.target_db_type)
     IN result' = [op |-> "map_data_type", source_type |-> result.source_type,
                   source_db_type |-> result.source_db_type,
                   target_db_type |-> result.target_db_type,
                   ret |-> r.ret, warnings |-> r.warnings]
  /\ UNCHANGED <<env, target_rows, engines, handles, progress_callbacks, cancel_flags, njobs, jobs, hist, sinks>>

\* the call of generate_create_table_sql returns
GenerateCreateTableSqlCall ==
  /\ result \in GenerateCreateTableSqlCalls
  /\ result' = [op |-> "generate_create_table_sql",
                table_schema |-> result.table_schema,
                source_db_type |-> result.source_db_type,
                target_db_type |-> result.target_db_type,
                target_table_name |-> result.target_table_name,
                ret |-> GenerateCreateTableSql(result.table_schema, result.source_db_type,
                          result.target_db_type, result.target_table_name)]
  /\ UNCHANGED <<env, target_rows, engines, handles, progress_callbacks, cancel_flags, njobs, jobs, hist, sinks>>

NextInspector == MapDataTypeCall \/ GenerateCreateTableSqlCall

\* one call of one of the inspector's two pure functions, with any of the
\* inputs above; no migration is started
InitInspector ==
  /\ env = [calls |-> 0, tables |-> 0, profiles |-> {}, ids |-> {}, cancels |-> {},
            callbacks |-> {}, sink_raises |-> {}, targets |-> {}, registry |-> <<>>,
            pk_cols |-> {}, pk_raises |-> {},
            truncate_raises |-> {}, io_raises |-> {}, sources |-> {},
            observed |-> {}]
  /\ target_rows = <<>>
  /\ engines = <<>>
  /\ handles = <<>>
  /\ progress_callbacks = <<>>
  /\ cancel_flags = <<>>
  /\ njobs = 0
  /\ jobs = [j \in Jobs |-> IdleJob]
  /\ hist = [j \in Jobs |-> NoHist]
  /\ sinks = [j \in Jobs |-> NoSink]
  /\ result \in MapDataTypeCalls \cup GenerateCreateTableSqlCalls
SpecInspector == InitInspector /\ [][NextInspector]_vars

\* ================================= DatabaseConnector (src/db/connector.py)
\* A handle is "disposed" once dispose() has been called on it.
MaxHandles == 3

SUPPORTED_ENGINES == {"mysql", "postgresql", "oracle", "sqlserver"}

\* what the caller passes as db_type
DbTypes == SUPPORTED_ENGINES \cup {"sqlite"}

\* where connect stops: building the URL or the engine raises, the probe of
\* lines 47-48 raises, the enumeration of line 58 raises, or nothing does
ConnectOutcomes == {"engine_error", "probe_error", "databases_error", "ok"}

Remove(d, k) == [x \in (DOMAIN d) \ {k} |-> d[x]]

\* line 44: every call that gets as far as create_engine makes a handle
HandlesAfterConnect(outcome) ==
  IF outcome = "engine_error" THEN handles ELSE Append(handles, "open")

\* line 51: the registration is written once the probe has passed, before
\* the databases are enumerated
EnginesAfterConnect(db_type, connection_id, outcome) ==
  IF outcome \in {"databases_error", "ok"}
    THEN Put(engines, connection_id, [type |-> db_type, engine |-> Len(handles) + 1])
    ELSE engines

\* lines 60-70
ConnectReturn(outcome) == IF outcome = "ok" THEN "success" ELSE "error"

connect(db_type, connection_id, outcome) ==
  /\ Len(handles) < MaxHandles
  /\ IF db_type \notin SUPPORTED_ENGINES
       THEN /\ result' = [op |-> "connect", id |-> connection_id, ret |-> "ValueError"]
            /\ UNCHANGED <<engines, handles>>
       ELSE /\ handles' = HandlesAfterConnect(outcome)
            /\ engines' = EnginesAfterConnect(db_type, connection_id, outcome)
            /\ result' = [op |-> "connect", id |-> connection_id,
                          ret |-> ConnectReturn(outcome)]
  /\ UNCHANGED <<env, target_rows, progress_callbacks, cancel_flags, njobs, jobs, hist, sinks>>

\* mutant: disconnect disposes the engine and keeps the registration
EnginesAfterDisconnectKept(connection_id) == engines

\* line 166
EnginesAfterDisconnect(connection_id) ==
  IF connection_id \in DOMAIN engines THEN Remove(engines, connection_id) ELSE engines

\* lines 161-165
HandlesAfterDisconnect(connection_id) ==
  IF connection_id \in DOMAIN engines
    THEN [handles EXCEPT ![engines[connection_id].engine] = "disposed"]
    ELSE handles

disconnect(connection_id) ==
  /\ handles' = HandlesAfterDisconnect(connection_id)
  /\ engines' = EnginesAfterDisconnect(connection_id)
  /\ result' = [op |-> "disconnect", id |-> connection_id, ret |-> "None"]
  /\ UNCHANGED <<env, target_rows, progress_callbacks, cancel_flags, njobs, jobs, hist, sinks>>

\* mutant: the lookup goes ahead without the membership test
LookupUnchecked(connection_id, ok) == IF ok THEN "ok" ELSE "QueryFailed"

\* the membership test that opens get_databases, get_tables, inspect_table
\* and sample_data, and what the call comes to when the id is known
Lookup(connection_id, ok) ==
  IF connection_id \notin DOMAIN engines
    THEN "ValueError"
    ELSE IF ok THEN "ok" ELSE "QueryFailed"

\* the operations that only read the registry
LookupOps == {"get_databases", "get_tables", "inspect_table", "sample_data"}

LookupCall(op, connection_id, ok) ==
  /\ result' = [op |-> op, id |-> connection_id, ret |-> Lookup(connection_id, ok)]
  /\ UNCHANGED <<env, target_rows, engines, handles, progress_callbacks, cancel_flags, njobs, jobs, hist, sinks>>

NextConnector ==
  \/ \E db_type \in DbTypes, connection_id \in ConnIds, outcome \in ConnectOutcomes :
       connect(db_type, connection_id, outcome)
  \/ \E connection_id \in ConnArgs : disconnect(connection_id)
  \/ \E op \in LookupOps, connection_id \in ConnArgs, ok \in BOOLEAN :
       LookupCall(op, connection_id, ok)
  \/ \E src \in ConnArgs, tgt \in ConnArgs, cb \in BOOLEAN :
       StartMigration("a", src, tgt, 0, cb)

\* a connector with nothing registered, and one call of start_migration
InitConnector ==
  InitWith([calls |-> 1, tables |-> 0, profiles |-> {}, ids |-> {"a"}, cancels |-> {},
            callbacks |-> BOOLEAN, sink_raises |-> {FALSE}, targets |-> ConnArgs,
            registry |-> <<>>, pk_cols |-> {}, pk_raises |-> {},
            truncate_raises |-> {}, io_raises |-> {}, sources |-> {},
            observed |-> {}])
SpecConnector == InitConnector /\ [][NextConnector]_vars

\* ============================================ the chunked copy alone
\* an estimate above the threshold that is not a multiple of chunk_size
Estimate == Threshold + (chunk_size \div 2)

\* <<estimate, rows>>: the estimate is exact; it is below the true count by
\* two chunks; it is stale and the table holds exactly chunk_size rows; it
\* is stale and the table is empty
ChunkProfiles ==
  {<<Estimate, Estimate>>, <<Estimate, Estimate + 2 * chunk_size>>,
   <<Estimate, chunk_size>>, <<Estimate, 0>>}

\* one job of one table estimated above the threshold, from a source of any
\* engine to a MySQL target, where no read and no write of a chunk raises
\* for a reason of the databases
InitChunks ==
  \E source_db_type \in SUPPORTED_ENGINES :
    InitWith([calls |-> 1, tables |-> 1, profiles |-> ChunkProfiles,
              ids |-> {"a"}, cancels |-> {"a"}, callbacks |-> {TRUE},
              sink_raises |-> {FALSE}, targets |-> {"target", "missing"},
              registry |-> RegisteredAs(source_db_type, "mysql"),
              pk_cols |-> {0, 1}, pk_raises |-> {FALSE},
              truncate_raises |-> {FALSE}, io_raises |-> {FALSE},
              sources |-> {"source", "missing"}, observed |-> {}])
SpecChunks == InitChunks /\ [][Next]_vars

\* ------------------------------------------------- the same migration twice
\* rows of the source table that is migrated twice
RerunRows == 3

\* two migrations of the same one table, which has no primary key and no
\* unique constraint, from a PostgreSQL source to a target of any engine
\* that starts empty; the table is copied in one piece, or in chunks when
\* its estimate is above the threshold; no statement raises for a reason of
\* the databases
InitRerun ==
  \E target_db_type \in SUPPORTED_ENGINES :
    InitWith([calls |-> 2, tables |-> 2,
              profiles |-> {<<RerunRows, RerunRows>>, <<Estimate, chunk_size>>},
              ids |-> {"a"}, cancels |-> {"b"}, callbacks |-> {FALSE},
              sink_raises |-> {FALSE}, targets |-> {"target"},
              registry |-> RegisteredAs("postgresql", target_db_type),
              pk_cols |-> {0}, pk_raises |-> {FALSE},
              truncate_raises |-> {FALSE}, io_raises |-> {FALSE},
              sources |-> {"source"}, observed |-> {1}])
SpecRerun == InitRerun /\ [][Next]_vars

\* ============================================================ claims
\* worker j takes the step
StepBy(j) == jobs'[j] # jobs[j]

\* the status of the latest snapshot job j has emitted
Status(j) == hist[j].last.status

\* C1: every job started with a progress sink delivers to that sink exactly
\* one terminal snapshot, and it is the last snapshot the sink receives for
\* the job: never more than one, nothing after it, and one once the job is over.
C1_OneTerminalPerSink ==
  \A j \in Jobs :
    jobs[j].sink # 0 =>
      LET s == sinks[jobs[j].sink] IN
        /\ s.nterminal <= 1
        /\ s.nterminal = 1 => s.last \in Terminal
        /\ jobs[j].pc = "done" => s.nterminal = 1

\* C2: a job that has reported completed, cancelled or error does nothing
\* more, whatever is called afterwards: its locals, its position and
\* everything it has emitted stay as they are.
C2_TerminalAbsorbing ==
  [][\A j \in Jobs :
       Status(j) \in Terminal =>
         /\ jobs'[j] = jobs[j]
         /\ jobs[j].pc = "done"
         /\ hist'[j] = hist[j]]_vars

\* a cancel of a finished job's id has just been accepted
C2_Witness ==
  \E j \in Jobs :
    /\ Status(j) = "completed"
    /\ hist[j].last.tables_completed = 1
    /\ ~hist[j].cancel_seen
    /\ result = [op |-> "cancel", id |-> jobs[j].task_id, ret |-> "cancelling"]

\* C3: a job that was cancelled while its table k was in progress ends with
\* status cancelled and tables_completed k-1 or k, for every k.
C3_CancelDuringTable ==
  \A j \in Jobs :
    (jobs[j].pc = "done" /\ hist[j].cancel_table > 0) =>
      /\ Status(j) = "cancelled"
      /\ hist[j].last.tables_completed \in
           {hist[j].cancel_table - 1, hist[j].cancel_table}

\* C4: once a cancel has been accepted for a running job, the worker starts
\* no further table (whose first operation is the introspection) and no
\* further chunk read: it only finishes what is in flight.
C4_NoWorkAfterCancel ==
  [][\A j \in Jobs :
       (hist[j].cancel_seen /\ StepBy(j)) =>
          jobs'[j].pc \notin {"inspect", "chunk_read"}]_vars

\* C5: migrate_tables with the task_id of a live job does not start: it
\* creates no job and leaves the cancel flags and the callbacks as they are.
LiveTask(tid) == \E j \in Jobs : Live(j) /\ jobs[j].task_id = tid

C5_JobExists ==
  [][\A tid \in TaskIds :
       (/\ LiveTask(tid)
        /\ result'.op = "start" /\ result'.id = tid
        /\ (result' # result \/ njobs' # njobs))
       => /\ result'.ret # "started"
          /\ njobs' = njobs
          /\ cancel_flags' = cancel_flags
          /\ progress_callbacks' = progress_callbacks]_vars

\* worker j takes a step in which one of `steps` raises
Raised(j, steps) == StepBy(j) /\ jobs'[j].error \in steps

FailedEntry(j) == [table |-> jobs[j].table, error |-> jobs'[j].error]

\* C6 as stated: an exception at any step of a table's copy, the row count
\* included, puts the table in tables_failed, leaves tables_completed alone
\* and moves on to the next table; the job then ends completed.
C6_Original ==
  [][\A j \in Jobs :
       /\ Raised(j, {"inspect", "connect", "count", "read", "write"}) =>
            /\ jobs'[j].failed_tables = Append(jobs[j].failed_tables, FailedEntry(j))
            /\ jobs'[j].tables_migrated = jobs[j].tables_migrated
            /\ jobs'[j].table = jobs[j].table + 1
            /\ jobs'[j].pc = "loop"
       /\ (StepBy(j) /\ jobs'[j].pc = "done" /\ jobs[j].failed_tables # <<>>) =>
            hist'[j].last.status = "completed"]_vars

\* C6: an exception at the introspection, the target connection, a read or a
\* write puts the table in tables_failed with its error, leaves
\* tables_completed alone and moves on to the next table, which is attempted
\* unless the cancel flag is set by then; a failing row-count query fails
\* nothing and counts as 0 rows.  A job with failed tables ends completed, or
\* cancelled when the flag is found set before a later table, never error.
C6_TableFailure ==
  [][\A j \in Jobs :
       /\ Raised(j, {"inspect", "connect", "read", "write"}) =>
            /\ jobs'[j].failed_tables = Append(jobs[j].failed_tables, FailedEntry(j))
            /\ jobs'[j].tables_migrated = jobs[j].tables_migrated
            /\ jobs'[j].table = jobs[j].table + 1
            /\ jobs'[j].pc = "loop"
       /\ Raised(j, {"count"}) =>
            /\ jobs'[j].failed_tables = jobs[j].failed_tables
            /\ jobs'[j].row_count = 0
            /\ jobs'[j].pc = "single_read"
       /\ (StepBy(j) /\ jobs[j].pc = "loop" /\ jobs[j].table <= jobs[j].total_tables
             /\ ~CancelRequested(j)) =>
            jobs'[j].pc = "inspect"
       /\ (StepBy(j) /\ jobs'[j].pc = "done" /\ jobs[j].failed_tables # <<>>) =>
            hist'[j].last.status =
              IF jobs[j].table <= jobs[j].total_tables THEN "cancelled" ELSE "completed"]_vars

\* three tables, the read of the second fails
C6_Witness ==
  \E j \in Jobs :
    /\ Status(j) = "completed"
    /\ hist[j].last.total_tables = 3
    /\ hist[j].last.tables_completed = 2
    /\ hist[j].last.tables_failed = <<[table |-> 2, error |-> "read"]>>

\* C7 as stated: completed + failed never exceeds the total, and every
\* completed or error snapshot carries completed + failed = total.
C7_Original ==
  \A j \in Jobs :
    /\ jobs[j].tables_migrated + Len(jobs[j].failed_tables) <= jobs[j].total_tables
    /\ Status(j) \in {"completed", "error"} =>
         hist[j].last.tables_completed + Len(hist[j].last.tables_failed)
           = hist[j].last.total_tables

\* C7: completed + failed never exceeds the total; every completed snapshot
\* carries completed + failed = total, and every error snapshot carries 0
\* completed and no failed table.
C7_Counts ==
  \A j \in Jobs :
    /\ jobs[j].tables_migrated + Len(jobs[j].failed_tables) <= jobs[j].total_tables
    /\ "tables_completed" \in DOMAIN hist[j].last =>
         hist[j].last.tables_completed + hist[j].last_failed <= hist[j].last.total_tables
    /\ Status(j) = "completed" =>
         hist[j].last.tables_completed + Len(hist[j].last.tables_failed)
           = hist[j].last.total_tables
    /\ Status(j) = "error" =>
         hist[j].last.tables_completed + Len(hist[j].last.tables_failed) = 0

\* a partial success: one table copied, two failed
C7_Witness ==
  \E j \in Jobs :
    /\ Status(j) = "completed"
    /\ hist[j].last.tables_completed = 1
    /\ Len(hist[j].last.tables_failed) = 2

\* C8: from one snapshot of a job to the next, the tables_completed and the
\* size of tables_failed they carry never decrease, nor do the job's own
\* counters.
C8_Monotone ==
  [][\A j \in Jobs :
       /\ hist'[j].last_completed >= hist[j].last_completed
       /\ hist'[j].last_failed >= hist[j].last_failed
       /\ jobs'[j].tables_migrated >= jobs[j].tables_migrated
       /\ Len(jobs'[j].failed_tables) >= Len(jobs[j].failed_tables)]_vars

\* a cancelled snapshot that follows snapshots with tables_completed = 1
C8_Witness ==
  \E j \in Jobs :
    /\ Status(j) = "cancelled"
    /\ hist[j].last_completed = 1
    /\ hist[j].last_failed = 1

\* C9: a failure while the engines are opened makes the job emit one snapshot,
\* with status error, and stop before any table: nothing was started, counted
\* or recorded as failed.
C9_OrchestrationError ==
  \A j \in Jobs :
    /\ jobs[j].error = "open_engines" => Status(j) = "error"
    /\ Status(j) = "error" =>
         /\ jobs[j].pc = "done"
         /\ hist[j].nterminal = 1
         /\ hist[j].post_terminal = 0
         /\ ~hist[j].started
         /\ jobs[j].table = 1
         /\ hist[j].last.tables_completed = 0
         /\ hist[j].last.tables_failed = <<>>

C9_Witness ==
  \E j \in Jobs :
    /\ Status(j) = "error"
    /\ jobs[j].total_tables = 2
    /\ jobs[j].sink # 0
    /\ sinks[jobs[j].sink] = [nterminal |-> 1, last |-> "error"]

\* C10: cancel_migration on a task_id that has a cancel flag sets that flag
\* and returns cancelling; on a task_id that was never started it returns
\* "not found" and leaves every flag as it is.
C10_Cancel ==
  [][\A tid \in TaskIds :
       (/\ result'.op = "cancel" /\ result'.id = tid
        /\ (result' # result \/ cancel_flags' # cancel_flags))
       => IF tid \in DOMAIN cancel_flags
            THEN /\ result'.ret = "cancelling"
                 /\ cancel_flags' = [cancel_flags EXCEPT ![tid] = TRUE]
            ELSE /\ result'.ret = "not_found"
                 /\ cancel_flags' = cancel_flags]_vars

\* "not found" for one id while the job of the other id runs
C10_Witness ==
  /\ result.op = "cancel" /\ result.ret = "not_found"
  /\ \E j \in Jobs : Running(j) /\ jobs[j].task_id # result.id
  /\ DOMAIN cancel_flags # {}

\* the jobs a pool worker is executing
Executing == {j \in Jobs : Running(j)}

\* C11: migrate_tables with registered connections returns started at once
\* and leaves the new job queued without touching any other job, however
\* many jobs are executing; at most max_workers jobs execute at any moment,
\* and a queued job starts executing only when fewer than max_workers do.
C11_Pool ==
  [][/\ Cardinality({j \in Jobs : jobs'[j].pc \notin {"idle", "queued", "done"}})
          <= max_workers
     /\ njobs' # njobs =>
          /\ result' = [op |-> "start", id |-> jobs'[njobs'].task_id, ret |-> "started"]
          /\ jobs'[njobs'].pc = "queued"
          /\ \A i \in Jobs \ {njobs'} : jobs'[i] = jobs[i]
     /\ \A j \in Jobs :
          (jobs[j].pc = "queued" /\ jobs'[j].pc # "queued") =>
             /\ Cardinality(Executing) < max_workers
             /\ jobs'[j].pc = "open_engines"]_vars

\* the sixth call has just returned started while five jobs are executing
C11_Witness ==
  /\ Cardinality(Executing) = max_workers
  /\ njobs = max_workers + 1
  /\ jobs[njobs].pc = "queued"
  /\ result.op = "start" /\ result.ret = "started"

\* no other admitted job has the task_id of job j
UniqueId(j) ==
  \A i \in Jobs \ {j} : jobs[i].pc # "idle" => jobs[i].task_id # jobs[j].task_id

\* C12: jobs with distinct task ids do not interfere.  A cancel sets the flag
\* of its own id only, and a job reports cancelled only when the flag of its
\* own id is set; a step of a job whose id no other job has delivers its
\* snapshots to the sink supplied at its start and changes no other sink.
C12_Independent ==
  [][/\ \A tid \in DOMAIN cancel_flags' :
          (cancel_flags'[tid] /\ ~(tid \in DOMAIN cancel_flags /\ cancel_flags[tid])) =>
             result' = [op |-> "cancel", id |-> tid, ret |-> "cancelling"]
     /\ \A j \in Jobs :
          /\ (hist'[j].last.status = "cancelled" /\ Status(j) # "cancelled") =>
                CancelRequested(j)
          /\ (StepBy(j) /\ Running(j) /\ UniqueId(j)) =>
                /\ \A s \in Jobs \ {jobs[j].sink} : sinks'[s] = sinks[s]
                /\ (jobs[j].sink # 0 /\ hist'[j].last # hist[j].last) =>
                      sinks'[jobs[j].sink].last = hist'[j].last.status]_vars

\* two jobs with distinct ids and a sink each are running, and the cancel of
\* one of them has just been accepted
C12_Witness ==
  /\ njobs = 2
  /\ jobs[1].task_id # jobs[2].task_id
  /\ Running(1) /\ Running(2)
  /\ jobs[1].sink = 1 /\ jobs[2].sink = 2
  /\ result = [op |-> "cancel", id |-> jobs[1].task_id, ret |-> "cancelling"]
  /\ cancel_flags[jobs[1].task_id] /\ ~cancel_flags[jobs[2].task_id]
  /\ sinks[1].last = "in_progress"

\* C13: a job works on its tables one at a time in list order.  The table in
\* progress changes only to the next of the list, and only in the step that
\* counts the current table completed or records it failed; while a table is
\* in progress every earlier table is counted or recorded, and the snapshots
\* that name a table name the one in progress.
C13_Sequential ==
  [][\A j \in Jobs :
       /\ jobs'[j].table # jobs[j].table =>
            /\ jobs[j].pc \in TablePcs
            /\ jobs'[j].table = jobs[j].table + 1
            /\ \/ /\ jobs'[j].tables_migrated = jobs[j].tables_migrated + 1
                  /\ jobs'[j].failed_tables = jobs[j].failed_tables
               \/ /\ jobs'[j].tables_migrated = jobs[j].tables_migrated
                  /\ jobs'[j].failed_tables =
                       Append(jobs[j].failed_tables, FailedEntry(j))
       /\ jobs'[j].pc \in TablePcs =>
            /\ jobs'[j].table <= jobs'[j].total_tables
            /\ jobs'[j].table =
                 jobs'[j].tables_migrated + Len(jobs'[j].failed_tables) + 1
       /\ (hist'[j].last # hist[j].last /\ "current_table" \in DOMAIN hist'[j].last) =>
            /\ hist'[j].last.current_table = jobs[j].table
            /\ jobs[j].pc \in TablePcs \cup {"loop"}]_vars

\* the third table is being read after one table was copied and one failed
C13_Witness ==
  \E j \in Jobs :
    /\ jobs[j].pc = "single_read"
    /\ jobs[j].table = 3
    /\ jobs[j].tables_migrated = 1
    /\ jobs[j].failed_tables = <<[table |-> 1, error |-> "inspect"]>>
    /\ hist[j].last.current_table = 3

\* C14: a step of a worker in which the callback raises is the step it would
\* have been otherwise.  It records no failed table and no error, it counts
\* the table completed exactly when the table ends, the worker goes on, and a
\* terminal snapshot has the status the job's course calls for with the
\* worker's counters in it.
C14_SinkCaught ==
  [][\A j \in Jobs :
       (StepBy(j) /\ hist'[j].sink_raised) =>
         /\ jobs'[j].failed_tables = jobs[j].failed_tables
         /\ jobs'[j].error \in {"none", "count", "pk", "open_engines"}
         /\ jobs'[j].tables_migrated =
              jobs[j].tables_migrated + (IF jobs'[j].table # jobs[j].table THEN 1 ELSE 0)
         /\ jobs'[j].pc = "done" <=> hist'[j].last.status \in Terminal
         /\ jobs'[j].pc = "done" =>
              /\ hist'[j].last.status =
                   IF jobs[j].pc = "open_engines" THEN "error"
                   ELSE IF jobs[j].table > jobs[j].total_tables THEN "completed"
                   ELSE "cancelled"
              /\ hist'[j].last.tables_completed = jobs[j].tables_migrated
              /\ hist'[j].last.tables_failed = jobs[j].failed_tables]_vars

\* the callback raised at the terminal call of a job that has copied one
\* table and failed one
C14_Witness ==
  \E j \in Jobs :
    /\ hist[j].sink_raised
    /\ Status(j) = "completed"
    /\ hist[j].last.tables_completed = 1
    /\ Len(hist[j].last.tables_failed) = 1
    /\ sinks[jobs[j].sink] = [nterminal |-> 1, last |-> "completed"]

\* a call of the inspector's function `op` has returned
Returned(op) == result.op = op /\ "ret" \in DOMAIN result

\* the entry of the (source, target) table under the key k, None without one
Declared(k) == Get(type_mappings(result.source_db_type, result.target_db_type), k)

\* the input of map_data_type in lower case, and what precedes its "("
FullKey == Lower(result.source_type)
BaseKey == Strip(Before(FullKey, "("))

\* C15: map_data_type with the same source and target engine returns its
\* input unchanged, capital letters included.
C15_Identity ==
  (Returned("map_data_type") /\ result.source_db_type = result.target_db_type) =>
     result.ret = result.source_type

\* C16: an input that is, case aside, a key of the table of its engine pair
\* gets the target declared for that key, the keys with a parenthesised part
\* included.
C16_FullKeys ==
  (/\ Returned("map_data_type")
   /\ result.source_db_type # result.target_db_type
   /\ Declared(FullKey) # None) =>
     result.ret = Declared(FullKey)

\* C17: an input that is not itself a key and whose base type is one gets the
\* target of the base, followed by the input's own parenthesised suffix when
\* it has one.
C17_Suffix ==
  (/\ Returned("map_data_type")
   /\ result.source_db_type # result.target_db_type
   /\ Declared(FullKey) = None
   /\ Declared(BaseKey) # None) =>
     result.ret =
       IF FirstIndex(FullKey, "(") # 0
         THEN Declared(BaseKey) \o <<"(">> \o PrecisionPart(result.source_type) \o <<")">>
         ELSE Declared(BaseKey)

\* C18: an input without an entry in the table of its engine pair comes back
\* unchanged, in its own case, with exactly one warning.
C18_Fallback ==
  (/\ Returned("map_data_type")
   /\ result.source_db_type # result.target_db_type
   /\ Declared(FullKey) = None
   /\ Declared(BaseKey) = None) =>
     /\ result.ret = result.source_type
     /\ result.warnings = 1

\* s.split(sep), with no part for an empty string
RECURSIVE SplitOn(_, _)
SplitOn(s, sep) ==
  IF s = <<>> THEN <<>>
  ELSE IF FirstIndex(s, sep) = 0 THEN <<s>>
  ELSE <<Before(s, sep)>> \o SplitOn(SubSeq(s, FirstIndex(s, sep) + 1, Len(s)), sep)

\* the definitions between the parentheses of a CREATE TABLE statement
Definitions(sql) ==
  SplitOn(SubSeq(sql, FirstIndex(sql, " (\n") + 1, FirstIndex(sql, "\n)") - 1), ",\n")

HasPiece(s, p) == FirstIndex(s, p) # 0

\* C19: the statement has one definition per column of the schema, in the
\* schema's order, each beginning with its column's name; after them comes
\* a PRIMARY KEY clause exactly when primary_keys is not empty, and it names
\* the primary_keys columns in their order.
C19_ColumnsAndKey ==
  Returned("generate_create_table_sql") =>
    LET columns == result.table_schema.columns
        pks == result.table_schema.primary_keys
        defs == Definitions(result.ret)
        n == Len(columns)
    IN /\ Len(defs) = n + (IF pks # <<>> THEN 1 ELSE 0)
       /\ \A i \in 1..n :
            /\ defs[i][1] = columns[i].name
            /\ ~HasPiece(defs[i], "    PRIMARY KEY (")
       /\ pks # <<>> =>
            LET key == defs[n + 1] IN
              /\ Len(key) = 2 * Len(pks) + 1
              /\ key[1] = "    PRIMARY KEY ("
              /\ key[Len(key)] = ")"
              /\ \A i \in 1..Len(pks) :
                   /\ key[2 * i] = pks[i]
                   /\ i < Len(pks) => key[2 * i + 1] = ", "

\* two columns and a two-column key in the other order
C19_Witness ==
  /\ Returned("generate_create_table_sql")
  /\ Len(result.table_schema.columns) = 2
  /\ result.table_schema.columns[1].name = "id"
  /\ result.table_schema.columns[2].name = "name"
  /\ result.table_schema.primary_keys = <<"name", "id">>
  /\ Len(Definitions(result.ret)) = 3

\* C20: the statement begins CREATE TABLE IF NOT EXISTS exactly when the
\* target is not oracle, and ends with the ENGINE=InnoDB DEFAULT
\* CHARSET=utf8mb4 suffix exactly when the target is mysql.
C20_HeadAndSuffix ==
  Returned("generate_create_table_sql") =>
    LET sql == result.ret IN
      /\ sql[1] = IF result.target_db_type = "oracle"
                    THEN "CREATE TABLE "
                    ELSE "CREATE TABLE IF NOT EXISTS "
      /\ HasPiece(sql, " ENGINE=InnoDB DEFAULT CHARSET=utf8mb4")
           <=> result.target_db_type = "mysql"
      /\ result.target_db_type = "mysql" =>
           /\ sql[Len(sql)] = " ENGINE=InnoDB DEFAULT CHARSET=utf8mb4"
           /\ sql[Len(sql) - 1] = "\n)"
      /\ result.target_db_type # "mysql" => sql[Len(sql)] = "\n)"

\* a statement for an oracle target and one for a mysql target differ in both
C20_Witness ==
  /\ Returned("generate_create_table_sql")
  /\ result.target_db_type = "oracle"
  /\ result.source_db_type = "mysql"
  /\ result.table_schema.columns # <<>>
  /\ result.ret[1] = "CREATE TABLE "

\* the columns of the schema of the call, and their definitions in the result
CallColumns == result.table_schema.columns
CallDefs == Definitions(result.ret)

\* C21: for an oracle source and a sqlserver target the statement has no
\* IF NOT EXISTS and no ENGINE= suffix, a VARCHAR2(200) column is declared
\* VARCHAR(200) and a TIMESTAMP column DATETIME.
C21_OracleToSqlServer ==
  (/\ Returned("generate_create_table_sql")
   /\ result.source_db_type = "oracle"
   /\ result.target_db_type = "sqlserver") =>
     /\ result.ret[1] = "CREATE TABLE "
     /\ ~HasPiece(result.ret, " ENGINE=InnoDB DEFAULT CHARSET=utf8mb4")
     /\ \A i \in 1..Len(CallColumns) :
          /\ CallColumns[i].type = <<"VARCHAR2", "(", "200", ")">> =>
               SubSeq(CallDefs[i], 1, 6) =
                 <<CallColumns[i].name, " ", "VARCHAR", "(", "200", ")">>
          /\ CallColumns[i].type = <<"TIMESTAMP">> =>
               SubSeq(CallDefs[i], 1, 3) = <<CallColumns[i].name, " ", "DATETIME">>

\* C22: the definition of a column has a DEFAULT clause exactly when the
\* source column has a default and that default is neither empty nor null
\* in any letter case; a column reported without a default gets none.
C22_Default ==
  Returned("generate_create_table_sql") =>
    \A i \in 1..Len(CallColumns) :
      \A col \in ReflectedColumns :
        ColumnInfo(col) = CallColumns[i] =>
          (HasPiece(CallDefs[i], "DEFAULT ")
             <=> (/\ col.default # <<>>
                  /\ col.default # <<"">>
                  /\ LowerPiece(col.default[1]) # "null"))


\* the call that has just returned was made on connection id c
ReturnedOn(op, c) == Returned(op) /\ result.id = c

\* the handles the registry leads to
Reachable == {engines[c].engine : c \in DOMAIN engines}

\* C23: a connect that replaces the registration of an id disposes the
\* handle that was registered under it, and no open handle is ever out of
\* the registry's reach.
C23_ReplaceDisposes ==
  [][\A c \in ConnIds :
       (/\ c \in DOMAIN engines
        /\ ReturnedOn("connect", c)'
        /\ engines'[c] # engines[c])
         => /\ handles'[engines[c].engine] = "disposed"
            /\ \A h \in 1..Len(handles') : handles'[h] = "open" => h \in Reachable']_vars

\* C24: a connect that returns an error leaves the registry as it was.
C24_FailedConnect ==
  [][(Returned("connect")' /\ result'.ret = "error") => engines' = engines]_vars


\* the state the connector and the migrator keep, apart from the last return
Unchanged ==
  UNCHANGED <<target_rows, engines, handles, progress_callbacks, cancel_flags, njobs,
              jobs, hist, sinks>>

\* C25: get_databases, get_tables, inspect_table, sample_data and
\* start_migration called with a connection id that is not registered raise
\* the error of an unknown connection and change nothing: no job, no sink,
\* no cancel flag.
C25_UnknownId ==
  [][/\ \A op \in LookupOps, c \in ConnArgs, ok \in BOOLEAN :
          (LookupCall(op, c, ok) /\ c \notin DOMAIN engines)
            => result'.ret = "ValueError" /\ Unchanged
     /\ \A src \in ConnArgs, tgt \in ConnArgs, cb \in BOOLEAN :
          (/\ StartMigration("a", src, tgt, 0, cb)
           /\ (src \notin DOMAIN engines \/ tgt \notin DOMAIN engines))
            => result'.ret = "ValueError" /\ Unchanged]_vars

\* start_migration has just failed on its target id, the source being known
C25_Witness ==
  /\ Returned("start")
  /\ result.ret = "ValueError"
  /\ "source" \in DOMAIN engines
  /\ "target" \notin DOMAIN engines
  /\ njobs = 0

\* C26: disconnect raises nothing; on a registered id it disposes the handle
\* and removes the id, on any other id it changes nothing; the calls made on
\* the id right after it fail as calls on an unknown connection.
C26_Disconnect ==
  [][\A c \in ConnArgs :
       /\ disconnect(c) =>
            /\ result'.ret = "None"
            /\ c \notin DOMAIN engines'
            /\ c \in DOMAIN engines =>
                 /\ handles'[engines[c].engine] = "disposed"
                 /\ engines' = Remove(engines, c)
            /\ c \notin DOMAIN engines => engines' = engines /\ handles' = handles
       /\ ReturnedOn("disconnect", c) =>
            /\ \A op \in LookupOps, ok \in BOOLEAN :
                 LookupCall(op, c, ok) => result'.ret = "ValueError"
            /\ \A other \in ConnArgs, cb \in BOOLEAN :
                 (StartMigration("a", c, other, 0, cb) \/ StartMigration("a", other, c, 0, cb))
                   => result'.ret = "ValueError"
            /\ disconnect(c) => engines' = engines /\ handles' = handles]_vars

\* a registered connection has just been disconnected, another one stays
C26_Witness ==
  /\ ReturnedOn("disconnect", "source")
  /\ "source" \notin DOMAIN engines
  /\ "target" \in DOMAIN engines
  /\ \E h \in 1..Len(handles) : handles[h] = "disposed"


\* C27: when CREATE TABLE fails on the target the failure is only logged:
\* the table is not put in tables_failed and the worker goes on to the row
\* count of the same table.
C27_DdlFailureLogged ==
  [][\A j \in Jobs :
       (jobs[j].pc = "ddl" /\ jobs'[j] # jobs[j] /\ jobs'[j].error = "ddl")
         => /\ jobs'[j].pc = "count"
            /\ jobs'[j].table = jobs[j].table
            /\ jobs'[j].failed_tables = jobs[j].failed_tables
            /\ jobs'[j].tables_migrated = jobs[j].tables_migrated]_vars

\* the CREATE TABLE of the first table has failed and its rows are about to
\* be counted
C27_Witness ==
  \E j \in Jobs :
    /\ jobs[j].pc = "count"
    /\ jobs[j].error = "ddl"
    /\ jobs[j].table = 1
    /\ jobs[j].failed_tables = <<>>


\* C28: after the row count the chunked path is taken exactly when the
\* count is above 1,000,000; a count of exactly 1,000,000 or less selects
\* the single-shot path, and so does a failed row-count query, which counts
\* as 0 rows.
C28_Threshold ==
  [][\A j \in Jobs :
       (jobs[j].pc = "count" /\ jobs'[j] # jobs[j])
         => /\ jobs'[j].pc \in {"get_pk", "single_read"}
            /\ jobs'[j].pc = "get_pk" <=> jobs'[j].row_count > Threshold
            /\ jobs'[j].error = "count" =>
                 jobs'[j].row_count = 0 /\ jobs'[j].pc = "single_read"]_vars

\* a table counted at exactly the threshold is on the single-shot path
C28_Witness ==
  \E j \in Jobs :
    /\ jobs[j].pc = "single_read"
    /\ jobs[j].row_count = Threshold


\* C29: in the chunked path keyset pagination is selected exactly when the
\* table has a single-column primary key; a table with a composite primary
\* key or with none is paginated by offset.  (A lookup of the key that
\* raises is left aside.)
C29_KeysetChoice ==
  [][\A j \in Jobs :
       (jobs[j].pc = "get_pk" /\ jobs'[j] # jobs[j] /\ jobs'[j].error # "pk")
         => (jobs'[j].pk_column <=> jobs'[j].pk_cols = 1)]_vars


\* C30: in the single-shot path towards a MySQL or SQL Server target a
\* failure of the TRUNCATE statement does not fail the table: the table is
\* not added to tables_failed and is counted in tables_completed.
C30_TruncateFailure ==
  [][\A j \in Jobs :
       (/\ jobs[j].pc = "single_write"
        /\ jobs[j].target_db_type \in TruncatingTargets
        /\ jobs'[j] # jobs[j]
        /\ jobs'[j].error = "truncate")
         => /\ jobs'[j].failed_tables = jobs[j].failed_tables
            /\ jobs'[j].tables_migrated = jobs[j].tables_migrated + 1]_vars


\* positions inside the loop of a chunked copy
ChunkPcs == {"chunk_loop", "chunk_read", "chunk_write"}

\* job j is in the loop of _migrate_with_keyset_pagination over a table
\* with a single-column primary key
InKeyset(j) ==
  jobs[j].pc \in ChunkPcs /\ jobs[j].pk_column /\ jobs[j].pk_cols = 1

\* job j is in the loop of _migrate_with_offset_pagination over a table
\* without a primary key
InOffset(j) ==
  jobs[j].pc \in ChunkPcs /\ ~jobs[j].pk_column /\ jobs[j].pk_cols = 0

\* the step of worker j leaves the table it was copying
LeavesTable(j) == StepBy(j) /\ jobs'[j].table # jobs[j].table

Ceil(a, b) == (a + b - 1) \div b

\* C31: a keyset copy of a table whose estimate is its true row count N
\* reads, at every read, the next chunk_size smallest keys above the last
\* key written (fewer when fewer are left, never none), writes each chunk,
\* and ends after ceil(N / chunk_size) chunk writes with every row written
\* once, the table counted completed and none failed.
C31_Keyset ==
  [][\A j \in Jobs :
       (InKeyset(j) /\ jobs[j].true_rows = jobs[j].row_count /\ StepBy(j)) =>
         /\ jobs[j].pc = "chunk_read" =>
              /\ jobs'[j].pc = "chunk_write"
              /\ jobs'[j].df_len = Min(chunk_size, jobs[j].true_rows - jobs[j].last_id)
              /\ jobs'[j].df_len > 0
              /\ jobs'[j].last_id = jobs[j].last_id + jobs'[j].df_len
         /\ jobs[j].pc = "chunk_write" =>
              /\ jobs'[j].pc = "chunk_loop"
              /\ jobs'[j].chunks = jobs[j].chunks + 1
              /\ jobs'[j].rows_processed = jobs[j].last_id
         /\ (LeavesTable(j) /\ ~CancelRequested(j)) =>
              /\ jobs[j].chunks = Ceil(jobs[j].true_rows, chunk_size)
              /\ jobs[j].rows_processed = jobs[j].true_rows
              /\ jobs'[j].tables_migrated = jobs[j].tables_migrated + 1
              /\ jobs'[j].failed_tables = <<>>]_vars


\* C32: a table without a primary key that is estimated above the threshold
\* is paginated by offset; every read takes the chunk_size rows that follow
\* the offset, every chunk read is written and moves the offset on by
\* exactly chunk_size, and the copy ends with every row written once and
\* the table counted completed.
C32_Offset ==
  [][\A j \in Jobs :
       /\ (jobs[j].pc = "get_pk" /\ StepBy(j) /\ jobs'[j].pk_cols = 0) =>
            ~jobs'[j].pk_column
       /\ (InOffset(j) /\ StepBy(j)) =>
            /\ (jobs[j].pc = "chunk_read" /\ jobs'[j].pc = "chunk_write") =>
                 /\ jobs'[j].df_len = Min(chunk_size, jobs[j].true_rows - jobs[j].offset)
                 /\ jobs[j].rows_processed = jobs[j].offset
            /\ jobs[j].pc = "chunk_write" =>
                 /\ jobs'[j].pc = "chunk_loop"
                 /\ jobs'[j].offset = jobs[j].offset + chunk_size
                 /\ jobs'[j].rows_processed = jobs[j].rows_processed + jobs[j].df_len
            /\ (LeavesTable(j) /\ ~CancelRequested(j)) =>
                 /\ jobs[j].rows_processed = jobs[j].true_rows
                 /\ jobs'[j].tables_migrated = jobs[j].tables_migrated + 1
                 /\ jobs'[j].failed_tables = <<>>]_vars


\* job j is in the loop of a chunked copy of a table that holds n rows
InChunked(j, n) == jobs[j].pc \in ChunkPcs /\ jobs[j].true_rows = n

\* C33: the chunked copy of a table that holds exactly chunk_size rows
\* writes one chunk, of chunk_size rows, and ends at the empty read that
\* follows it; no row is written twice.
C33_ExactlyOneChunk ==
  [][\A j \in Jobs :
       (InChunked(j, chunk_size) /\ StepBy(j)) =>
         /\ jobs'[j].pc \in ChunkPcs =>
              jobs'[j].chunks <= 1 /\ jobs'[j].rows_processed <= chunk_size
         /\ (LeavesTable(j) /\ ~CancelRequested(j)) =>
              /\ jobs[j].pc = "chunk_read"
              /\ jobs[j].chunks = 1
              /\ jobs[j].rows_processed = chunk_size
              /\ jobs'[j].failed_tables = <<>>]_vars


\* worker j emits a snapshot that carries a row total in this step
EmitsRows(j) == hist'[j].last # hist[j].last /\ "total_rows" \in DOMAIN hist'[j].last

\* C34: the chunked copy of a table that holds no rows writes nothing, ends
\* at its first read, which is empty, with the table counted completed, and
\* the snapshots it emits for the table carry total_rows = 0.
C34_EmptyTable ==
  [][\A j \in Jobs :
       (InChunked(j, 0) /\ StepBy(j)) =>
         /\ jobs'[j].pc # "chunk_write"
         /\ EmitsRows(j) => hist'[j].last.total_rows = 0
         /\ (LeavesTable(j) /\ ~CancelRequested(j)) =>
              /\ jobs[j].pc = "chunk_read"
              /\ jobs[j].chunks = 0
              /\ jobs'[j].tables_migrated = jobs[j].tables_migrated + 1
              /\ jobs'[j].failed_tables = <<>>]_vars


\* C35: the latest snapshot of every worker that carries a row counter and
\* a row total has the counter at or below the total.
C35_RowsWithinTotal ==
  \A j \in Jobs :
    "current_progress" \in DOMAIN hist[j].last =>
      hist[j].last.current_progress <= hist[j].last.total_rows


\* C36: when the cancel flag is found set at the head of the chunk loop
\* after some but not all rows of the table were written, the table is not
\* counted in tables_completed and no snapshot reports it completed.
C36_PartialNotCounted ==
  [][\A j \in Jobs :
       (/\ jobs[j].pc = "chunk_loop"
        /\ CancelRequested(j)
        /\ jobs[j].chunks > 0
        /\ jobs[j].rows_processed < jobs[j].row_count
        /\ jobs[j].rows_processed < jobs[j].true_rows
        /\ StepBy(j))
         => /\ jobs'[j].tables_migrated = jobs[j].tables_migrated
            /\ hist'[j].last_completed = hist[j].last_completed]_vars


\* C37: a chunked copy whose estimate is below the table's true row count
\* ends only at a read that returns no rows, so the table is counted
\* completed with every source row written.
C37_LowEstimate ==
  [][\A j \in Jobs :
       (/\ jobs[j].pc \in ChunkPcs
        /\ jobs[j].row_count < jobs[j].true_rows
        /\ LeavesTable(j)
        /\ ~CancelRequested(j)
        /\ jobs'[j].tables_migrated = jobs[j].tables_migrated + 1)
         => /\ jobs[j].pc = "chunk_read"
            /\ jobs[j].rows_processed = jobs[j].true_rows]_vars


\* C38: while a job is running under a task id whose cancel flag is set, no
\* step clears the flag or changes the sink registered under the id.
C38_CancelStays ==
  [][\A tid \in TaskIds :
       (/\ \E j \in Jobs : Running(j) /\ jobs[j].task_id = tid
        /\ tid \in DOMAIN cancel_flags
        /\ cancel_flags[tid])
         => /\ tid \in DOMAIN cancel_flags'
            /\ cancel_flags'[tid]
            /\ (tid \in DOMAIN progress_callbacks) = (tid \in DOMAIN progress_callbacks')
            /\ tid \in DOMAIN progress_callbacks =>
                 progress_callbacks'[tid] = progress_callbacks[tid]]_vars


\* C39: a job for which a cancel was accepted while it was queued starts no
\* introspection, DDL, count, read or write once a worker runs it, and,
\* its engines opened, ends with status cancelled and tables_completed = 0.
C39_CancelledWhileQueued ==
  [][\A j \in Jobs :
       (/\ hist[j].cancel_queued
        /\ jobs[j].total_tables > 0
        /\ StepBy(j))
         => /\ jobs'[j].pc \notin OpPcs
            /\ (jobs'[j].pc = "done" /\ jobs'[j].error # "open_engines") =>
                 /\ hist'[j].last.status = "cancelled"
                 /\ hist'[j].last.tables_completed = 0]_vars

\* job i has migrated its one table and has ended
RanOnce(i) ==
  /\ jobs[i].pc = "done"
  /\ jobs[i].total_tables = 1
  /\ jobs[i].tables_migrated = 1

\* worker j ends the single-shot copy of the observed table with success
RerunWrites(j) ==
  /\ jobs[j].pc = "single_write"
  /\ jobs[j].table \in DOMAIN target_rows
  /\ jobs[j].total_tables = 1
  /\ SingleWrite(j)
  /\ jobs'[j].tables_migrated = 1

\* C40: when the target table holds the rows of one single-shot run of a
\* migration, a second successful run of the same migration over the
\* unchanged source leaves the table with the same rows, whatever the
\* engine of the target.
C40_RerunIdempotent ==
  [][\A i \in Jobs, j \in Jobs :
       (/\ i # j
        /\ RanOnce(i)
        /\ target_rows[1] = jobs[j].df_len
        /\ RerunWrites(j))
         => target_rows'[1] = target_rows[1]]_vars

\* both runs have ended with success and the MySQL target holds the rows
\* of the source once
C40_Witness ==
  /\ \E i \in Jobs, j \in Jobs : i # j /\ RanOnce(i) /\ RanOnce(j)
  /\ engines["target"].type = "mysql"
  /\ target_rows[1] = RerunRows

====
